---- MODULE Spec2Model ----
(***************************************************************************)
(* Google Calendar Logger: the session-continuity state machine of         *)
(* GoogleCalendarLogger (logStart / logActivity / logEnd) run against a    *)
(* remote calendar event store.                                            *)
(*                                                                         *)
(* Times are milliseconds since the epoch, as in the JavaScript source.    *)
(* Texts are sequences of tokens (a template literal is the concatenation  *)
(* of its parts), a description is the sequence of its newline-joined      *)
(* lines, and a line "HH:MM - text" is the record [hh, mm, text].          *)
(***************************************************************************)
EXTENDS Integers, Sequences, FiniteSets, TLC

(***************************************************************************)
(* Bounds of the model                                                     *)
(***************************************************************************)
\* operations a run issues
MaxOps == 4
\* responses of events.insert of a run that arrive late
MaxSlow == 1

(***************************************************************************)
(* Program constants                                                       *)
(***************************************************************************)
DefaultMinutesUntilInactivity == 10
PlaceholderMs == 1000
MsPerMinute == 1000 * 60
LookbackMs == 1000 * 60 * 60 * 24 * 7

\* the value of an absent property (JavaScript undefined)
Undefined == 0 - 1
\* the numeric value of an unparsable date
NaN == 0 - 2
\* a timestamp that is present and does not parse
Malformed == 0 - 3
\* a value that is a string where a number is expected, such as '5'
StringValue == 0 - 4

\* the callers of the logger; the sequential specification uses the first
Procs == {1, 2}

\* options.calendar
CalendarSummaries == {"Cal"}
\* options.minutesUntilInactivity as passed to the constructor
MinutesOptions == {Undefined, 1}
\* the arguments logActivity is called with: every call reports a text of its own
MessageNames == <<"m1", "m2", "m3", "m4", "m5", "m6", "m7", "m8">>
Message(k) == <<MessageNames[k]>>

\* the clock when the logger has been constructed and connected
InitNow == 1000 * 60 * 60 * 24
\* idle time between two operations
Gaps == {5 * MsPerMinute, 11 * MsPerMinute}
\* time from issuing a remote call to its response; a late response is modelled
\* for events.insert, the call after which logActivity measures the time again
FastLatency == 2
SlowLatency == 11 * MsPerMinute
\* time from issuing a remote call to the server handling it
ServerDelay == 1

VARIABLES
    now,                    \* the wall clock (new Date())
    store,                  \* the calendar's events, in creation order
    calendarSummary,        \* this.calendarSummary
    minutesUntilInactivity, \* this.minutesUntilInactivity
    strings,                \* this.strings
    pc,                     \* per caller: where its operation is suspended
    frame,                  \* per caller: the locals of the suspended function
    inflight,               \* remote calls issued and not yet answered
    console,                \* what the current operation printed
    op,                     \* per caller: record of the operation in progress / last finished
    hist,                   \* the operations finished so far, in order
    initStore,              \* the store at construction
    lastMutation,           \* the kind of the last change of the store
    nOps,                   \* operations issued
    nSlow,                  \* late responses so far
    options,                \* the argument of the constructor
    credentialsPath,        \* this.credentialsPath
    tokenPath,              \* this.tokenPath
    calendarConnection,     \* the promise this.calendarConnection
    calendarId,             \* this.calendarId
    calendarList,           \* the calendars of the account, in the order they are listed
    thrown,                 \* the error that was thrown and not caught, if any
    files,                  \* the paths at which a file can be read
    auth                    \* what authorize resolved with, the auth of the connection

vars == <<now, store, calendarSummary, minutesUntilInactivity, strings, pc, frame,
          inflight, console, op, hist, initStore, lastMutation, nOps, nSlow,
          options, credentialsPath, tokenPath, calendarConnection, calendarId,
          calendarList, thrown, files, auth>>

config == <<calendarSummary, minutesUntilInactivity, strings>>

\* the instance's connection and what it was constructed from
connection == <<options, credentialsPath, tokenPath, calendarConnection, calendarId,
                calendarList, thrown, files, auth>>

(***************************************************************************)
(* Helpers of sequences                                                    *)
(***************************************************************************)
Range(s) == {s[i] : i \in 1..Len(s)}

Reverse(s) == [i \in 1..Len(s) |-> s[Len(s) + 1 - i]]

RECURSIVE SortedByStart(_)
\* the elements of a set of events as a sequence ascending by start time
SortedByStart(S) ==
    IF S = {} THEN <<>>
    ELSE LET first == CHOOSE e \in S :
                        \A f \in S : e.start < f.start \/ (e.start = f.start /\ e.id <= f.id)
         IN <<first>> \o SortedByStart(S \ {first})

(***************************************************************************)
(* Configuration                                                           *)
(***************************************************************************)
\* a string of this.strings: a function of the project name or a literal
getDefaultStrings ==
    [activityStarted       |-> [fn |-> TRUE, usesName |-> TRUE,  body |-> "Started working on"],
     activityInProgress    |-> [fn |-> TRUE, usesName |-> TRUE,  body |-> "Working on"],
     activityConcluded     |-> [fn |-> TRUE, usesName |-> TRUE,  body |-> "Worked on"],
     activityLogged        |-> [fn |-> TRUE, usesName |-> TRUE,  body |-> "Activity in"],
     closedDueToInactivity |-> [fn |-> TRUE, usesName |-> FALSE, body |-> "(closed due to inactivity)"]]

\* typeof minutes === 'number'
IsNumber(minutes) == minutes # Undefined /\ minutes # StringValue

\* a mutation: the type is compared with 'Number', which typeof never yields
setMinutesUntilInactivityNumber(minutes) == DefaultMinutesUntilInactivity

\* this.minutesUntilInactivity after setDefaults() and setMinutesUntilInactivity(minutes)
setMinutesUntilInactivity(minutes) ==
    IF IsNumber(minutes) /\ minutes > 0 THEN minutes ELSE DefaultMinutesUntilInactivity

msUntilInactivity == minutesUntilInactivity * 1000 * 60

\* the text of one of this.strings
getLogName(logName) ==
    IF logName.fn
    THEN (IF logName.usesName THEN <<logName.body, calendarSummary>> ELSE <<logName.body>>)
    ELSE <<logName.body>>

\* values of the required options: a string, nothing, or something else
Str(text) == [type |-> "string", text |-> text]
Missing == [type |-> "undefined", text |-> ""]
NotAString == [type |-> "number", text |-> "42"]

\* the required option setters: the value they store, or the error they throw
setCredentialsPath(value) ==
    IF value.type = "string" /\ value.text # ""
    THEN [value |-> value.text, error |-> ""]
    ELSE [value |-> "", error |-> "Missing or incorrect value for required option 'credentialsPath'"]

setTokenPath(value) ==
    IF value.type = "string" /\ value.text # ""
    THEN [value |-> value.text, error |-> ""]
    ELSE [value |-> "", error |-> "Missing or incorrect value for required option 'tokenPath'"]

\* a mutation: every value is taken as the calendar's name
setCalendarSummaryAny(value) == [value |-> value.text, error |-> ""]

setCalendarSummary(value) ==
    IF value.type = "string" /\ value.text # ""
    THEN [value |-> value.text, error |-> ""]
    ELSE [value |-> "", error |-> "Missing or incorrect value for required option 'calendar'"]

\* values of options.strings: nothing, an object with some of the keys, something else
NoOverrides == [type |-> "undefined", given |-> {}, fields |-> getDefaultStrings]

LiteralOverrides ==
    [type |-> "object", given |-> {"activityLogged", "activityInProgress"},
     fields |-> [getDefaultStrings EXCEPT
                    !.activityLogged = [fn |-> FALSE, usesName |-> FALSE, body |-> "Saved a file"],
                    !.activityInProgress = [fn |-> FALSE, usesName |-> FALSE, body |-> "Busy"]]]

NotAnObject == [LiteralOverrides EXCEPT !.type = "string"]

\* this.strings after setDefaults() and setStringsOverrides(stringsOverrides)
setStringsOverrides(stringsOverrides) ==
    IF stringsOverrides.type = "object"
    THEN [k \in DOMAIN getDefaultStrings |->
            IF k \in stringsOverrides.given THEN stringsOverrides.fields[k]
            ELSE getDefaultStrings[k]]
    ELSE getDefaultStrings

\* options with every required value given
ValidOptions(calendar, minutes, stringsOverrides) ==
    [credentialsPath |-> Str("credentials.json"), tokenPath |-> Str("token.json"),
     calendar |-> Str(calendar), minutesUntilInactivity |-> minutes,
     strings |-> stringsOverrides]

\* the instance that the constructor has built from the options
Constructed ==
    /\ credentialsPath = setCredentialsPath(options.credentialsPath).value
    /\ tokenPath = setTokenPath(options.tokenPath).value
    /\ calendarSummary = setCalendarSummary(options.calendar).value
    /\ minutesUntilInactivity = setMinutesUntilInactivity(options.minutesUntilInactivity)
    /\ strings = setStringsOverrides(options.strings)
    /\ thrown = ""

\* the calendar of that name was found and the connection is ready
Connected ==
    /\ calendarList = <<[id |-> 1, summary |-> calendarSummary]>>
    /\ calendarId = 1
    /\ calendarConnection = "resolved"
    /\ files = {credentialsPath, tokenPath}
    /\ auth = "oAuth2Client"

(***************************************************************************)
(* Descriptions                                                            *)
(***************************************************************************)
getHours(date) == (date \div (60 * MsPerMinute)) % 24
getMinutes(date) == (date \div MsPerMinute) % 60

ActivityLine(date, activity) ==
    [hh |-> getHours(date), mm |-> getMinutes(date), text |-> activity]

\* the line break inside a text
Newline == "\n"

RECURSIVE SplitLines(_)
\* the lines that a text makes up when it is written into a description
SplitLines(text) ==
    IF \A i \in 1..Len(text) : text[i] # Newline THEN <<text>>
    ELSE LET k == CHOOSE i \in 1..Len(text) :
                    text[i] = Newline /\ \A j \in 1..(i - 1) : text[j] # Newline
         IN <<SubSeq(text, 1, k - 1)>> \o SplitLines(SubSeq(text, k + 1, Len(text)))

\* `${hh}:${mm} – ${activity}`: the time stands before the first line of the text only
ActivityLines(date, activity) ==
    LET lines == SplitLines(activity)
    IN [i \in 1..Len(lines) |->
            IF i = 1 THEN ActivityLine(date, lines[1])
            ELSE [hh |-> Undefined, mm |-> Undefined, text |-> lines[i]]]

\* a mutation: the new line replaces the description
addToDescriptionOverwrite(date, activity, description) ==
    ActivityLines(date, activity)

addToDescription(date, activity, description) ==
    IF description # <<>>
    THEN description \o ActivityLines(date, activity)
    ELSE ActivityLines(date, activity)

(***************************************************************************)
(* Inactivity                                                              *)
(***************************************************************************)
\* +new Date(stamp): the milliseconds of a timestamp, NaN when it does not parse
DateValue(stamp) == IF stamp = Undefined \/ stamp = Malformed THEN NaN ELSE stamp

\* +new Date(updated || created): created is used when updated is absent
LastActivity(ev) ==
    IF ev.updated # Undefined THEN DateValue(ev.updated) ELSE DateValue(ev.created)

\* a mutation: a gap equal to the threshold counts as inactivity
hasInactivityOrEqual(latestIncompleteLogEvent, currentTime) ==
    LET lastActivity == LastActivity(latestIncompleteLogEvent)
    IN IF lastActivity = NaN THEN FALSE
       ELSE (currentTime - lastActivity) >= msUntilInactivity

\* a mutation: the minutes of the clock are compared instead of the instants
hasInactivityClockMinutes(latestIncompleteLogEvent, currentTime) ==
    LET lastActivity == LastActivity(latestIncompleteLogEvent)
    IN IF lastActivity = NaN THEN FALSE
       ELSE (getMinutes(currentTime) - getMinutes(lastActivity)) > minutesUntilInactivity

hasInactivity(latestIncompleteLogEvent, currentTime) ==
    LET lastActivity == LastActivity(latestIncompleteLogEvent)
    IN IF lastActivity = NaN THEN FALSE
       ELSE (currentTime - lastActivity) > msUntilInactivity

(***************************************************************************)
(* The remote event store                                                  *)
(***************************************************************************)
NoEvent ==
    [id |-> 0, summary |-> <<>>, description |-> <<>>, start |-> Undefined, end |-> Undefined,
     updated |-> Undefined, created |-> Undefined, completed |-> "none"]

\* an event of the calendar that the logger did not create
ForeignEvent ==
    [id |-> 1, summary |-> <<"Lunch">>, description |-> <<>>,
     start |-> InitNow - 60 * MsPerMinute, end |-> InitNow - 30 * MsPerMinute,
     updated |-> InitNow - 120 * MsPerMinute, created |-> InitNow - 120 * MsPerMinute,
     completed |-> "none"]

InitStores == {<<>>, <<ForeignEvent>>}

IsOpen(ev) == ev.completed = "false"

OpenEvents(s) == {e \in Range(s) : IsOpen(e)}

\* events.list: the events that start in [timeMin, timeMax], ascending by start time
EventsList(s, timeMin, timeMax) ==
    SortedByStart({e \in Range(s) : timeMin <= e.start /\ e.start <= timeMax})

\* events.insert: the store with the new event, stamped by the server
EventsInsert(s, resource, serverTime) ==
    Append(s, [id |-> Len(s) + 1, summary |-> resource.summary,
               description |-> resource.description,
               start |-> resource.start, end |-> resource.end,
               updated |-> serverTime, created |-> serverTime,
               completed |-> resource.completed])

\* events.patch: the fields of the resource replace the event's, the rest stays
EventsPatch(s, eventId, resource, serverTime) ==
    [s EXCEPT ![eventId] =
        [@ EXCEPT !.summary = resource.summary,
                  !.description = resource.description,
                  !.end = IF resource.end = Undefined THEN @ ELSE resource.end,
                  !.completed = resource.completed,
                  !.updated = serverTime]]

(***************************************************************************)
(* Requests of the logger                                                  *)
(***************************************************************************)
NoResource ==
    [summary |-> <<>>, description |-> <<>>, start |-> Undefined, end |-> Undefined,
     completed |-> "none"]

\* the parameters of a remote call; calendarId is this.calendarId as the call reads it
Request(p, call, timeMin, timeMax, eventId, resource) ==
    [proc |-> p, call |-> call, calendarId |-> calendarId, timeMin |-> timeMin,
     timeMax |-> timeMax, eventId |-> eventId, resource |-> resource]

\* a mutation: the start event is created closed
StartResourceClosed(startTime) ==
    [summary |-> getLogName(strings.activityStarted),
     description |-> addToDescription(startTime, getLogName(strings.activityStarted), <<>>),
     start |-> startTime, end |-> startTime + PlaceholderMs, completed |-> "true"]

\* logStart: eventParams.resource
StartResource(startTime) ==
    [summary |-> getLogName(strings.activityStarted),
     description |-> addToDescription(startTime, getLogName(strings.activityStarted), <<>>),
     start |-> startTime, end |-> startTime + PlaceholderMs, completed |-> "false"]

InsertRequest(p, startTime) ==
    Request(p, "insert", Undefined, Undefined, 0, StartResource(startTime))

\* a mutation: the listing goes back ten days
ListRequestTenDays(p, currentTime) ==
    Request(p, "list", currentTime - 10 * 24 * 60 * MsPerMinute, currentTime, 0, NoResource)

\* getLatestIncompleteLogEvent: listParams
ListRequest(p, currentTime) ==
    Request(p, "list", currentTime - LookbackMs, currentTime, 0, NoResource)

\* a mutation: the activity patch closes the event
ActivityResourceClosing(ev, activityTime, activityDescription) ==
    [summary |-> getLogName(strings.activityInProgress),
     description |-> addToDescription(activityTime, activityDescription, ev.description),
     start |-> Undefined, end |-> activityTime, completed |-> "true"]

\* logActivity: patchParams.resource
ActivityResource(ev, activityTime, activityDescription) ==
    [summary |-> getLogName(strings.activityInProgress),
     description |-> addToDescription(activityTime, activityDescription, ev.description),
     start |-> Undefined, end |-> activityTime, completed |-> "false"]

\* a mutation: the concluding patch leaves the marker open
EndResourceOpen(ev, endTime) ==
    [summary |-> getLogName(strings.activityConcluded),
     description |-> addToDescription(endTime, getLogName(strings.activityConcluded),
                                      ev.description),
     start |-> Undefined, end |-> endTime, completed |-> "false"]

\* logEnd: patchParams.resource
EndResource(ev, endTime) ==
    [summary |-> getLogName(strings.activityConcluded),
     description |-> addToDescription(endTime, getLogName(strings.activityConcluded),
                                      ev.description),
     start |-> Undefined, end |-> endTime, completed |-> "true"]

\* a mutation: the stale event keeps its open marker
InactivityResourceOpen(ev, activityTime) ==
    [summary |-> getLogName(strings.activityConcluded),
     description |-> addToDescription(activityTime,
                        getLogName(strings.activityConcluded)
                            \o getLogName(strings.closedDueToInactivity),
                        ev.description),
     start |-> Undefined, end |-> Undefined, completed |-> "false"]

\* a mutation: the stale event is closed at the time the lapse is detected
InactivityResourceEndsNow(ev, activityTime) ==
    [summary |-> getLogName(strings.activityConcluded),
     description |-> addToDescription(activityTime,
                        getLogName(strings.activityConcluded)
                            \o getLogName(strings.closedDueToInactivity),
                        ev.description),
     start |-> Undefined, end |-> activityTime, completed |-> "true"]

\* logEndDueToInactivity: patchParams.resource
InactivityResource(ev, activityTime) ==
    [summary |-> getLogName(strings.activityConcluded),
     description |-> addToDescription(activityTime,
                        getLogName(strings.activityConcluded)
                            \o getLogName(strings.closedDueToInactivity),
                        ev.description),
     start |-> Undefined, end |-> Undefined, completed |-> "true"]

PatchRequest(p, ev, resource) == Request(p, "patch", Undefined, Undefined, ev.id, resource)

\* a mutation: the close of the stale log and the new start are issued together
LapseRequestsTogether(p, ev, activityTime) ==
    {PatchRequest(p, ev, InactivityResource(ev, activityTime)), InsertRequest(p, activityTime)}

\* logActivity on inactivity: what is issued before the function suspends
LapseRequests(p, ev, activityTime) ==
    {PatchRequest(p, ev, InactivityResource(ev, activityTime))}

(***************************************************************************)
(* The resolver of the open session                                        *)
(***************************************************************************)
NoEventsError == "Found no events in the past 7 days."
NoIncompleteError == "No latest incomplete event found in the past 7 days."

\* a mutation: the first incomplete event of the listing is taken
FindLatestIncompleteForward(events) ==
    LET idx == {i \in 1..Len(events) : events[i].completed = "false"}
    IN IF Len(events) = 0 THEN [found |-> FALSE, event |-> NoEvent, error |-> NoEventsError]
       ELSE IF idx = {} THEN [found |-> FALSE, event |-> NoEvent, error |-> NoIncompleteError]
       ELSE [found |-> TRUE, event |-> events[CHOOSE i \in idx : \A j \in idx : i <= j],
             error |-> ""]

\* a mutation: an event without the marker counts as incomplete
FindLatestUnmarked(events) ==
    LET reversed == Reverse(events)
        idx == {i \in 1..Len(reversed) : reversed[i].completed # "true"}
    IN IF Len(events) = 0 THEN [found |-> FALSE, event |-> NoEvent, error |-> NoEventsError]
       ELSE IF idx = {} THEN [found |-> FALSE, event |-> NoEvent, error |-> NoIncompleteError]
       ELSE [found |-> TRUE, event |-> reversed[CHOOSE i \in idx : \A j \in idx : i <= j],
             error |-> ""]

\* a mutation: the latest event of the listing is taken whatever its marker
FindLatestAny(events) ==
    IF Len(events) = 0 THEN [found |-> FALSE, event |-> NoEvent, error |-> NoEventsError]
    ELSE [found |-> TRUE, event |-> events[Len(events)], error |-> ""]

\* a mutation: without an incomplete event the resolver yields an empty session
FindLatestOrDefault(events) ==
    LET reversed == Reverse(events)
        idx == {i \in 1..Len(reversed) : reversed[i].completed = "false"}
    IN IF idx = {} THEN [found |-> TRUE, event |-> NoEvent, error |-> ""]
       ELSE [found |-> TRUE, event |-> reversed[CHOOSE i \in idx : \A j \in idx : i <= j],
             error |-> ""]

\* getLatestIncompleteLogEvent: the callback of events.list
FindLatestIncomplete(events) ==
    LET reversed == Reverse(events)
        idx == {i \in 1..Len(reversed) : reversed[i].completed = "false"}
    IN IF Len(events) = 0 THEN [found |-> FALSE, event |-> NoEvent, error |-> NoEventsError]
       ELSE IF idx = {} THEN [found |-> FALSE, event |-> NoEvent, error |-> NoIncompleteError]
       ELSE [found |-> TRUE, event |-> reversed[CHOOSE i \in idx : \A j \in idx : i <= j],
             error |-> ""]

(***************************************************************************)
(* Bookkeeping of the operations (observations, no program state)          *)
(***************************************************************************)
NoOp ==
    [kind |-> "none", msg |-> <<>>, time0 |-> Undefined, time |-> Undefined, pre |-> <<>>,
     nList |-> 0, nInsert |-> 0, nPatch |-> 0, nClose |-> 0, retries |-> 0,
     lapsed |-> FALSE, status |-> "none", error |-> "",
     windowSize |-> 0, windowOpen |-> 0, window |-> <<>>, found |-> 0, target |-> 0,
     stale |-> 0]

NewOp(kind, msg, t) ==
    [NoOp EXCEPT !.kind = kind, !.msg = msg, !.time0 = t, !.time = t, !.pre = store,
                 !.status = "pending"]

Summary(o) ==
    [kind |-> o.kind, msg |-> o.msg, time |-> o.time0, status |-> o.status,
     error |-> o.error, lapsed |-> o.lapsed, retries |-> o.retries,
     openBefore |-> Cardinality(OpenEvents(o.pre))]

NoFrame == [outer |-> "none", time |-> Undefined, activityDescription |-> <<>>,
            latest |-> NoEvent]

Latency(slow) == IF slow THEN SlowLatency ELSE FastLatency

Idle == \A q \in Procs : pc[q] = "idle"

(***************************************************************************)
(* Construction                                                            *)
(***************************************************************************)
Init ==
    /\ now = InitNow
    /\ store \in InitStores
    /\ initStore = store
    /\ options \in {ValidOptions(c, m, NoOverrides) : c \in CalendarSummaries, m \in MinutesOptions}
    /\ Constructed
    /\ Connected
    /\ pc = [p \in Procs |-> "idle"]
    /\ frame = [p \in Procs |-> NoFrame]
    /\ inflight = {}
    /\ console = {}
    /\ op = [p \in Procs |-> NoOp]
    /\ hist = <<>>
    /\ lastMutation = "none"
    /\ nOps = 0
    /\ nSlow = 0

(***************************************************************************)
(* The public operations, up to their first remote call                    *)
(***************************************************************************)
\* logStart(): reads the clock and issues events.insert
CallLogStartAfter(p, gap) ==
    /\ pc[p] = "idle"
    /\ nOps < MaxOps
    /\ LET t == now + gap
       IN /\ now' = t
          /\ frame' = [frame EXCEPT ![p] = [NoFrame EXCEPT !.outer = "logStart", !.time = t]]
          /\ inflight' = inflight \cup {InsertRequest(p, t)}
          /\ op' = [op EXCEPT ![p] = [NewOp("logStart", <<>>, t) EXCEPT !.nInsert = 1]]
    /\ pc' = [pc EXCEPT ![p] = "awaitInsert"]
    /\ console' = {}
    /\ nOps' = nOps + 1
    /\ UNCHANGED <<store, config, connection, hist, initStore, lastMutation, nSlow>>

\* logStart() some minutes after the step before
CallLogStart(p) == \E gap \in Gaps : CallLogStartAfter(p, gap)

\* logActivity(activityDescription): reads the clock and issues events.list
CallLogActivityAfter(p, activityDescription, gap) ==
    /\ pc[p] = "idle"
    /\ nOps < MaxOps
    /\ LET t == now + gap
       IN /\ now' = t
          /\ frame' = [frame EXCEPT ![p] =
                           [NoFrame EXCEPT !.outer = "logActivity", !.time = t,
                                           !.activityDescription = activityDescription]]
          /\ inflight' = inflight \cup {ListRequest(p, t)}
          /\ op' = [op EXCEPT ![p] =
                           [NewOp("logActivity", activityDescription, t) EXCEPT !.nList = 1]]
    /\ pc' = [pc EXCEPT ![p] = "awaitList"]
    /\ console' = {}
    /\ nOps' = nOps + 1
    /\ UNCHANGED <<store, config, connection, hist, initStore, lastMutation, nSlow>>

\* logActivity(activityDescription) some minutes after the step before
CallLogActivityMsg(p, activityDescription) ==
    \E gap \in Gaps : CallLogActivityAfter(p, activityDescription, gap)

\* logActivity with the message of the run's next report
CallLogActivity(p) == CallLogActivityMsg(p, Message(nOps + 1))

\* `${activity}` for one of this.strings that was not passed through getLogName: a
\* literal is its text, a function is its source
TemplateString(logName) ==
    IF logName.fn
    THEN (IF logName.usesName THEN <<"projectName =>", logName.body, "${projectName}">>
          ELSE <<"projectName =>", logName.body>>)
    ELSE <<logName.body>>

\* logActivity(): activityDescription = this.strings.activityLogged
CallLogActivityDefault(p) == CallLogActivityMsg(p, TemplateString(strings.activityLogged))

\* logEnd(): reads the clock and issues events.list
CallLogEndAfter(p, gap) ==
    /\ pc[p] = "idle"
    /\ nOps < MaxOps
    /\ LET t == now + gap
       IN /\ now' = t
          /\ frame' = [frame EXCEPT ![p] = [NoFrame EXCEPT !.outer = "logEnd", !.time = t]]
          /\ inflight' = inflight \cup {ListRequest(p, t)}
          /\ op' = [op EXCEPT ![p] = [NewOp("logEnd", <<>>, t) EXCEPT !.nList = 1]]
    /\ pc' = [pc EXCEPT ![p] = "awaitList"]
    /\ console' = {}
    /\ nOps' = nOps + 1
    /\ UNCHANGED <<store, config, connection, hist, initStore, lastMutation, nSlow>>

\* logEnd() some minutes after the step before
CallLogEnd(p) == \E gap \in Gaps : CallLogEndAfter(p, gap)

(***************************************************************************)
(* The responses of the remote calls and what the operation does next      *)
(***************************************************************************)
\* the operation of caller p settles
Settle(p, status, error) ==
    LET o == [op[p] EXCEPT !.status = status, !.error = error]
    IN /\ op' = [op EXCEPT ![p] = o]
       /\ hist' = Append(hist, Summary(o))
       /\ pc' = [pc EXCEPT ![p] = "idle"]
       /\ frame' = [frame EXCEPT ![p] = NoFrame]

\* the callback of events.insert in logStart; inside logActivity the activity is
\* then logged after all: logActivity(activityDescription) is called again
RespondInsert(r, slow) ==
    LET p == r.proc
        t == now + Latency(slow)
    IN /\ r \in inflight
       /\ r.call = "insert"
       /\ slow => nSlow < MaxSlow
       /\ nSlow' = IF slow THEN nSlow + 1 ELSE nSlow
       /\ now' = t
       /\ store' = EventsInsert(store, r.resource, now + ServerDelay)
       /\ lastMutation' = "insert"
       /\ console' = console \cup {"Start event created"}
       /\ IF frame[p].outer = "logStart"
          THEN /\ Settle(p, "resolved", "")
               /\ inflight' = inflight \ {r}
          ELSE /\ frame' = [frame EXCEPT ![p].time = t, ![p].latest = NoEvent]
               /\ inflight' = (inflight \ {r}) \cup {ListRequest(p, t)}
               /\ op' = [op EXCEPT ![p].retries = @ + 1, ![p].nList = @ + 1, ![p].time = t]
               /\ pc' = [pc EXCEPT ![p] = "awaitList"]
               /\ hist' = hist
       /\ UNCHANGED <<config, connection, initStore, nOps>>

\* the callback of events.list in getLatestIncompleteLogEvent, then the inactivity
\* check of logActivity / logEnd and the patch it issues
RespondList(r) ==
    LET p == r.proc
        f == frame[p]
        events == EventsList(store, r.timeMin, r.timeMax)
        res == FindLatestIncomplete(events)
        ev == res.event
        seen == [op[p] EXCEPT !.windowSize = Len(events), !.window = events,
                              !.windowOpen = Cardinality({i \in 1..Len(events) : IsOpen(events[i])}),
                              !.found = ev.id]
    IN /\ r \in inflight
       /\ r.call = "list"
       /\ now' = now + FastLatency
       /\ UNCHANGED <<store, lastMutation>>
       /\ IF ~res.found
          THEN /\ console' = console \cup {"Couldn't create log."}
               /\ inflight' = inflight \ {r}
               /\ hist' = Append(hist, Summary([seen EXCEPT !.status = "rejected",
                                                            !.error = res.error]))
               /\ op' = [op EXCEPT ![p] = [seen EXCEPT !.status = "rejected",
                                                       !.error = res.error]]
               /\ pc' = [pc EXCEPT ![p] = "idle"]
               /\ frame' = [frame EXCEPT ![p] = NoFrame]
          ELSE IF hasInactivity(ev, f.time)
          THEN /\ console' = console \cup {"Inactivity detected"}
               /\ inflight' = (inflight \ {r}) \cup
                                (IF f.outer = "logActivity"
                                 THEN LapseRequests(p, ev, f.time)
                                 ELSE {PatchRequest(p, ev, InactivityResource(ev, f.time))})
               /\ op' = [op EXCEPT ![p] = [seen EXCEPT !.lapsed = TRUE, !.nClose = @ + 1,
                                                       !.nPatch = @ + 1,
                                                       !.stale = IF @ = 0 THEN ev.id ELSE @]]
               /\ pc' = [pc EXCEPT ![p] = "awaitClose"]
               /\ frame' = [frame EXCEPT ![p].latest = ev]
               /\ hist' = hist
          ELSE /\ console' = console
               /\ inflight' = (inflight \ {r}) \cup
                                {PatchRequest(p, ev,
                                    IF f.outer = "logActivity"
                                    THEN ActivityResource(ev, f.time, f.activityDescription)
                                    ELSE EndResource(ev, f.time))}
               /\ op' = [op EXCEPT ![p] = [seen EXCEPT !.nPatch = @ + 1, !.target = ev.id]]
               /\ pc' = [pc EXCEPT ![p] = "awaitPatch"]
               /\ frame' = [frame EXCEPT ![p].latest = ev]
               /\ hist' = hist
       /\ UNCHANGED <<config, connection, initStore, nOps, nSlow>>

\* the callback of events.patch in logActivity, logEnd and logEndDueToInactivity;
\* after the close of a stale log logActivity goes on with logStart()
RespondPatch(r) ==
    LET p == r.proc
        t == now + FastLatency
    IN /\ r \in inflight
       /\ r.call = "patch"
       /\ now' = t
       /\ store' = EventsPatch(store, r.eventId, r.resource, now + ServerDelay)
       /\ lastMutation' = IF r.resource.completed = "true" THEN "close" ELSE "extend"
       /\ console' = console \cup {"Work logged"}
       /\ IF pc[p] = "awaitClose" /\ frame[p].outer = "logActivity"
          THEN /\ frame' = [frame EXCEPT ![p].time = t]
               /\ inflight' = (inflight \ {r}) \cup {InsertRequest(p, t)}
               /\ op' = [op EXCEPT ![p].nInsert = @ + 1]
               /\ pc' = [pc EXCEPT ![p] = "awaitInsert"]
               /\ hist' = hist
          ELSE /\ Settle(p, "resolved", "")
               /\ inflight' = inflight \ {r}
       /\ UNCHANGED <<config, connection, initStore, nOps, nSlow>>

(***************************************************************************)
(* One logger used sequentially: an operation is called when the previous  *)
(* one has settled                                                         *)
(***************************************************************************)
Next ==
    \/ Idle /\ CallLogStart(1)
    \/ Idle /\ CallLogActivity(1)
    \/ Idle /\ CallLogEnd(1)
    \/ \E r \in inflight, slow \in BOOLEAN : RespondInsert(r, slow)
    \/ \E r \in inflight : RespondList(r)
    \/ \E r \in inflight : RespondPatch(r)

Spec == Init /\ [][Next]_vars

TypeOK ==
    /\ now \in Int
    /\ \A i \in 1..Len(store) : store[i].id = i
    /\ \A p \in Procs : pc[p] \in {"idle", "awaitInsert", "awaitList", "awaitPatch", "awaitClose"}

(***************************************************************************)
(* Properties                                                              *)
(***************************************************************************)
\* the operation of the sequential caller, in progress or last settled
Last == op[1]

HasLine(ev, text) == \E i \in 1..Len(ev.description) : ev.description[i].text = text

StartedText == <<"Started working on", calendarSummary>>
ConcludedText == <<"Worked on", calendarSummary>>
InactivityText == <<"Worked on", calendarSummary, "(closed due to inactivity)">>

C1Kinds == <<"logStart", "logActivity", "logActivity", "logEnd">>

\* the first k operations of the run are start, report, report, end, each
\* resolved without finding inactivity
C1Prefix(k) ==
    /\ Len(hist) = k
    /\ \A i \in 1..k : /\ hist[i].kind = C1Kinds[i]
                       /\ hist[i].status = "resolved"
                       /\ ~hist[i].lapsed

C1Lines ==
    [i \in 1..Len(hist) |->
        ActivityLine(hist[i].time,
                     IF hist[i].kind = "logStart" THEN StartedText
                     ELSE IF hist[i].kind = "logEnd" THEN ConcludedText
                     ELSE hist[i].msg)]

\* C1: in a run start(); reportActivity(m1); reportActivity(m2); end() without
\* inactivity the store gains exactly one event; it is open after start and after
\* each report and closed after end, and its description is the lines of the
\* operations so far, in order: activityStarted, m1, m2, activityConcluded.
C1_OneSessionFourLines ==
    \A k \in 1..4 :
        (Idle /\ C1Prefix(k)) =>
            /\ Len(store) = Len(initStore) + 1
            /\ SubSeq(store, 1, Len(initStore)) = initStore
            /\ store[Len(store)].completed = (IF k = 4 THEN "true" ELSE "false")
            /\ store[Len(store)].description = C1Lines

C1_Witness ==
    /\ Idle
    /\ C1Prefix(4)
    /\ hist[2].msg # hist[3].msg

\* C2: a report that finds the open event lapsed leaves the stale event closed,
\* with the inactivity line appended and no line of the message, and an event
\* created by the call that is open and carries the line of the message; the
\* message is on exactly one event, and when the stale event was the only open one
\* the new event is the only open one afterwards.
C2_LapseSplitsSession ==
    (Idle /\ Last.kind = "logActivity" /\ Last.status = "resolved" /\ Last.lapsed) =>
        LET pre == Last.pre
            old == store[Last.stale]
            created == {store[i] : i \in (Len(pre) + 1)..Len(store)}
            carrying == {e \in Range(store) : HasLine(e, Last.msg)}
        IN /\ IsOpen(pre[Last.stale])
           /\ old.completed = "true"
           /\ Len(old.description) = Len(pre[Last.stale].description) + 1
           /\ SubSeq(old.description, 1, Len(old.description) - 1)
                = pre[Last.stale].description
           /\ old.description[Len(old.description)].text = InactivityText
           /\ ~HasLine(old, Last.msg)
           /\ \E e \in created : IsOpen(e) /\ HasLine(e, Last.msg) /\ e.id # old.id
           /\ Cardinality(carrying) = 1
           /\ Cardinality(OpenEvents(pre)) = 1 =>
                /\ Cardinality(OpenEvents(store)) = 1
                /\ OpenEvents(store) \subseteq created

C2_Witness ==
    /\ Idle
    /\ Last.kind = "logActivity"
    /\ Last.status = "resolved"
    /\ Last.lapsed
    /\ Cardinality(OpenEvents(Last.pre)) = 1
    /\ Len(store) = Len(Last.pre) + 1

\* C3: a report on an open event that has not lapsed issues one list, one patch
\* and no create; the patched event is the open event with the latest start, its
\* end becomes the time the call read, one line of the message is appended, the
\* marker stays open, and its start, its identifier, the other events and the
\* number of events are unchanged.
C3_ExtendOnly ==
    (Idle /\ Last.kind = "logActivity" /\ Last.status = "resolved" /\ ~Last.lapsed) =>
        LET pre == Last.pre
            t == Last.target
        IN /\ Last.nList = 1 /\ Last.nPatch = 1 /\ Last.nInsert = 0
           /\ t \in 1..Len(pre)
           /\ IsOpen(pre[t])
           /\ \A e \in OpenEvents(pre) : e.start <= pre[t].start
           /\ Len(store) = Len(pre)
           /\ \A i \in 1..Len(pre) : i # t => store[i] = pre[i]
           /\ store[t].id = pre[t].id
           /\ store[t].start = pre[t].start
           /\ store[t].end = Last.time0
           /\ store[t].completed = "false"
           /\ store[t].description
                = pre[t].description \o <<ActivityLine(Last.time0, Last.msg)>>

C3_Witness ==
    /\ Idle
    /\ Last.kind = "logActivity"
    /\ Last.status = "resolved"
    /\ ~Last.lapsed
    /\ Len(store) > 1
    /\ store[Last.target].end # Last.pre[Last.target].end

\* C4: a report performs at most one retry: at most one close of a stale event,
\* one start and one activity patch, whatever time the remote calls take.
C4_AtMostOneRetry ==
    \A p \in Procs :
        op[p].kind = "logActivity" =>
            /\ op[p].retries <= 1
            /\ op[p].nClose <= 1
            /\ op[p].nInsert <= 1
            /\ op[p].nPatch - op[p].nClose <= 1

Mine(p) == {r \in inflight : r.proc = p}

\* C5: an operation never has two remote calls in flight; on the lapse path the
\* create is in flight only when the close has been applied, and the list of the
\* retried report only when the created event is in the store.
C5_OneCallInFlight ==
    \A p \in Procs :
        /\ Cardinality(Mine(p)) <= 1
        /\ \A r \in Mine(p) :
            /\ (r.call = "insert" /\ op[p].kind = "logActivity") =>
                    /\ pc[p] = "awaitInsert"
                    /\ store[frame[p].latest.id].completed = "true"
                    /\ Len(store) = Len(op[p].pre) + op[p].nInsert - 1
            /\ (r.call = "list" /\ op[p].retries >= 1) =>
                    /\ pc[p] = "awaitList"
                    /\ Len(store) = Len(op[p].pre) + op[p].nInsert
                    /\ IsOpen(store[Len(store)])

C5_Witness ==
    \E r \in inflight :
        /\ r.call = "list"
        /\ op[r.proc].kind = "logActivity"
        /\ op[r.proc].retries = 1
        /\ op[r.proc].nClose = 1

\* start() has only been called while no event was open, and the calendar held at
\* most one open event at construction
Disciplined ==
    /\ Cardinality(OpenEvents(initStore)) <= 1
    /\ \A i \in 1..Len(hist) : hist[i].kind = "logStart" => hist[i].openBefore = 0
    /\ Last.kind = "logStart" => OpenEvents(Last.pre) = {}

\* C6: with one sequential caller that starts only when no session is open, at most
\* one event is open in every state, and exactly one is open from a create until the
\* next close (the last change of the store was a create or an extension).
C6_AtMostOneOpen ==
    Disciplined =>
        /\ Cardinality(OpenEvents(store)) <= 1
        /\ lastMutation \in {"insert", "extend"} => Cardinality(OpenEvents(store)) = 1

C6_Witness ==
    /\ Disciplined
    /\ Idle
    /\ Last.kind = "logActivity"
    /\ Last.lapsed
    /\ Last.status = "resolved"
    /\ Cardinality(OpenEvents(store)) = 1
    /\ \E i \in 1..Len(hist) : hist[i].kind = "logEnd" /\ hist[i].status = "resolved"

\* C7: start() issues one create and no list or patch, whatever the store holds; it
\* appends one open event and leaves every earlier event as it was, so that a start
\* while an event is open leaves one more open event than before.
C7_StartDoesNotCheck ==
    /\ Last.kind = "logStart" => Last.nInsert = 1 /\ Last.nList = 0 /\ Last.nPatch = 0
    /\ (Idle /\ Last.kind = "logStart") =>
            /\ Last.status = "resolved"
            /\ Len(store) = Len(Last.pre) + 1
            /\ SubSeq(store, 1, Len(Last.pre)) = Last.pre
            /\ IsOpen(store[Len(store)])
            /\ Cardinality(OpenEvents(store)) = Cardinality(OpenEvents(Last.pre)) + 1

C7_Witness ==
    /\ Idle
    /\ Last.kind = "logStart"
    /\ Cardinality(OpenEvents(Last.pre)) = 1
    /\ Cardinality(OpenEvents(store)) = 2

\* C8: every resolution that finds no open event ends in one and the same outcome,
\* whether the window was empty or held only closed or unmarked events.
C8_SingleNotFound ==
    \A i, j \in 1..Len(hist) :
        (hist[i].status = "rejected" /\ hist[j].status = "rejected") =>
            hist[i].error = hist[j].error

\* C9: a resolution over a window with two or more open events does not fail; it
\* yields an open event of the window that no other open event of the window
\* starts after.
C9_LatestOfSeveralOpen ==
    \A p \in Procs :
        op[p].windowOpen >= 2 =>
            /\ op[p].status # "rejected"
            /\ \E i \in 1..Len(op[p].window) :
                /\ op[p].window[i].id = op[p].found
                /\ IsOpen(op[p].window[i])
                /\ \A j \in 1..Len(op[p].window) :
                      IsOpen(op[p].window[j]) =>
                          op[p].window[j].start <= op[p].window[i].start
                /\ \A j \in 1..Len(op[p].window) :
                      (IsOpen(op[p].window[j]) /\ j # i) =>
                          op[p].window[j].start < op[p].window[i].start

C9_Witness ==
    /\ Last.windowOpen >= 2
    /\ Last.found # 0
    /\ Last.status = "resolved"

\* C10: whenever a resolution saw more than one open event, the operation has
\* raised a warning about it that its caller can observe.
C10_MultipleOpenWarned ==
    \A p \in Procs :
        op[p].windowOpen >= 2 => "MultipleOpenSessions" \in console

(***************************************************************************)
(* The inactivity check on its own: hasInactivity applied to an open event *)
(* with given timestamps, at a given time and threshold, and again later   *)
(***************************************************************************)
\* later checks of one run
MaxLater == 2

PolicyBase == InitNow
\* options.minutesUntilInactivity: absent, not positive, one and two minutes
PolicyMinutes == {Undefined, 0, 1, 2}
PolicyUpdated == {Undefined, Malformed, PolicyBase, PolicyBase + 1}
PolicyCreated == {Undefined, Malformed, PolicyBase - MsPerMinute}
PolicyNows ==
    {PolicyBase + m * MsPerMinute + d : m \in {1, 10}, d \in {0 - 1, 0, 1}}
PolicyElapse == {1, 50 * MsPerMinute}

PolicyEvent(updated, created) ==
    [id |-> 1, summary |-> <<"Started working on", "Cal">>, description |-> <<>>,
     start |-> PolicyBase - 2 * MsPerMinute,
     end |-> PolicyBase - 2 * MsPerMinute + PlaceholderMs,
     updated |-> updated, created |-> created, completed |-> "false"]

InitPolicy ==
    /\ now \in PolicyNows
    /\ store \in {<<PolicyEvent(u, c)>> : u \in PolicyUpdated, c \in PolicyCreated}
    /\ initStore = store
    /\ options \in {ValidOptions(c, m, NoOverrides) : c \in CalendarSummaries, m \in PolicyMinutes}
    /\ Constructed
    /\ Connected
    /\ pc = [p \in Procs |-> "idle"]
    /\ frame = [p \in Procs |-> NoFrame]
    /\ inflight = {}
    /\ console = {}
    /\ op = [p \in Procs |-> NoOp]
    /\ hist = <<>>
    /\ lastMutation = "none"
    /\ nOps = 0
    /\ nSlow = 0

\* the record of one call hasInactivity(store[1], t)
Checked(t) ==
    [NewOp("hasInactivity", <<>>, t) EXCEPT !.lapsed = hasInactivity(store[1], t),
                                            !.status = "resolved"]

\* hasInactivity(event, now)
CheckInactivity ==
    /\ op[1].kind = "none"
    /\ op' = [op EXCEPT ![1] = Checked(now)]
    /\ UNCHANGED <<now, store, config, connection, pc, frame, inflight, console, hist, initStore,
                   lastMutation, nOps, nSlow>>

\* time passes and hasInactivity is called on the same event again
CheckLater ==
    /\ op[1].kind = "hasInactivity"
    /\ Len(hist) < MaxLater
    /\ \E d \in PolicyElapse :
        /\ now' = now + d
        /\ op' = [op EXCEPT ![1] = Checked(now + d)]
    /\ hist' = Append(hist, Summary(op[1]))
    /\ UNCHANGED <<store, config, connection, pc, frame, inflight, console, initStore,
                   lastMutation, nOps, nSlow>>

NextPolicy ==
    \/ CheckInactivity
    \/ CheckLater

SpecPolicy == InitPolicy /\ [][NextPolicy]_vars

\* the event's last activity as the claim words it: its updated stamp or, when
\* that is absent, its created stamp
StampOf(ev) == IF ev.updated # Undefined THEN ev.updated ELSE ev.created

WellFormed(ev) == StampOf(ev) # Undefined /\ StampOf(ev) # Malformed

C12_TenMinutesOrLonger ==
    /\ setMinutesUntilInactivity(Undefined) = 10
    /\ (/\ Last.kind = "hasInactivity"
        /\ WellFormed(store[1])
        /\ minutesUntilInactivity = setMinutesUntilInactivity(Undefined)
        /\ (Last.time0 - StampOf(store[1])) >= 10 * 60000) => Last.lapsed

\* C13: for one event and threshold, once the check is true at some time it is
\* true at every later time.
C13_MonotonicInTime ==
    Last.kind = "hasInactivity" =>
        \A i \in 1..Len(hist) :
            (hist[i].time <= Last.time0 /\ hist[i].lapsed) => Last.lapsed

C13_Witness ==
    /\ Last.kind = "hasInactivity"
    /\ Len(hist) = 2
    /\ ~hist[1].lapsed
    /\ hist[2].lapsed
    /\ Last.lapsed
    /\ hist[2].time < Last.time0

\* C14: on an event whose timestamps do not parse the check fails with a
\* MalformedTimestamp error and yields no boolean.
C14_MalformedTimestampFails ==
    (Last.kind = "hasInactivity" /\ ~WellFormed(store[1])) =>
        /\ Last.status = "rejected"
        /\ Last.error = "MalformedTimestamp"

\* the line that an operation at time t with the given text adds to a description
LineAt(t, text) == [hh |-> getHours(t), mm |-> getMinutes(t), text |-> text]

\* C15: a resolved logEnd has created no event and changed exactly the one event it
\* resolved, which was open; after inactivity the event is marked closed with the
\* inactivity notice appended (no restart); otherwise it is marked closed, the
\* concluded line is appended and the summary is the concluded text.
C15_EndClosesOneEvent ==
    (Last.kind = "logEnd" /\ Last.status = "resolved") =>
        LET k == Last.found
            before == Last.pre[k]
            after == store[k]
            gap == Last.time0 - StampOf(before)
        IN /\ Last.nInsert = 0
           /\ Last.nPatch = 1
           /\ Len(store) = Len(Last.pre)
           /\ k \in 1..Len(store)
           /\ \A i \in 1..Len(store) : i # k => store[i] = Last.pre[i]
           /\ before.completed = "false"
           /\ after.completed = "true"
           /\ Last.lapsed = (gap > minutesUntilInactivity * 60000)
           /\ Last.lapsed =>
                /\ after.description = Append(before.description, LineAt(Last.time0, InactivityText))
                /\ after.end = before.end
           /\ ~Last.lapsed =>
                /\ after.description = Append(before.description, LineAt(Last.time0, ConcludedText))
                /\ after.summary = ConcludedText
                /\ after.end = Last.time0

\* a normal end, a new start and an end after inactivity
C15_Witness ==
    /\ Last.kind = "logEnd"
    /\ Last.status = "resolved"
    /\ Last.lapsed
    /\ store[Last.found].completed = "true"
    /\ \E i \in 1..Len(hist) - 1 :
        hist[i].kind = "logEnd" /\ hist[i].status = "resolved" /\ ~hist[i].lapsed

(***************************************************************************)
(* Remote calls that fail: the API hands an error to the callback and the  *)
(* call has had no effect on the calendar                                  *)
(***************************************************************************)
\* failed remote calls of one run
MaxFail == 1
\* operations of one run with failing calls
MaxFailOps == 3

\* the err object that the API passes to a callback
TransportError == "TransportError"

Failures == Cardinality({i \in 1..Len(hist) : hist[i].error = TransportError})

\* a mutation: the failed call is issued again
RejectedRetry(r) == {r}

\* what a callback issues when it is given an error: nothing, it rejects
Rejected(r) == {}

\* the callbacks with err set: a line on the console and reject(err), which every
\* await up to the public operation passes on
Fail(r, line) ==
    /\ r \in inflight
    /\ Failures < MaxFail
    /\ now' = now + FastLatency
    /\ console' = console \cup {line}
    /\ Settle(r.proc, "rejected", TransportError)
    /\ inflight' = (inflight \ {r}) \cup Rejected(r)
    /\ UNCHANGED <<store, config, connection, initStore, lastMutation, nOps, nSlow>>

\* logStart: events.insert fails
FailInsert(r) ==
    /\ r.call = "insert"
    /\ Fail(r, "There was an error creating a start event.")

\* getLatestIncompleteLogEvent: events.list fails
FailList(r) ==
    /\ r.call = "list"
    /\ Fail(r, "An error occured during listing events.")

\* logActivity, logEnd, logEndDueToInactivity: events.patch fails
FailPatch(r) ==
    /\ r.call = "patch"
    /\ Fail(r, IF r.resource.completed = "true"
               THEN "An error occured during creating the completed work log."
               ELSE "An error occured during updating the work log.")

\* one logger used sequentially; responses arrive without delay or fail
NextFail ==
    \/ Idle /\ nOps < MaxFailOps /\ CallLogStart(1)
    \/ Idle /\ nOps < MaxFailOps /\ CallLogActivity(1)
    \/ Idle /\ nOps < MaxFailOps /\ CallLogEnd(1)
    \/ \E r \in inflight : RespondInsert(r, FALSE)
    \/ \E r \in inflight : RespondList(r)
    \/ \E r \in inflight : RespondPatch(r)
    \/ \E r \in inflight : FailInsert(r)
    \/ \E r \in inflight : FailList(r)
    \/ \E r \in inflight : FailPatch(r)

\* an open log of nine days ago, before the window that the resolver lists
OldOpenEvent ==
    [id |-> 1, summary |-> <<"Working on", "Cal">>,
     description |-> <<[hh |-> 0, mm |-> 0, text |-> <<"Started working on", "Cal">>]>>,
     start |-> InitNow - LookbackMs - 2 * 24 * 60 * MsPerMinute,
     end |-> InitNow - LookbackMs - 2 * 24 * 60 * MsPerMinute + PlaceholderMs,
     updated |-> InitNow - LookbackMs - 2 * 24 * 60 * MsPerMinute,
     created |-> InitNow - LookbackMs - 2 * 24 * 60 * MsPerMinute,
     completed |-> "false"]

InitFail ==
    /\ now = InitNow
    /\ store \in InitStores \cup {<<OldOpenEvent>>}
    /\ initStore = store
    /\ options \in {ValidOptions(c, m, NoOverrides) : c \in CalendarSummaries, m \in MinutesOptions}
    /\ Constructed
    /\ Connected
    /\ pc = [p \in Procs |-> "idle"]
    /\ frame = [p \in Procs |-> NoFrame]
    /\ inflight = {}
    /\ console = {}
    /\ op = [p \in Procs |-> NoOp]
    /\ hist = <<>>
    /\ lastMutation = "none"
    /\ nOps = 0
    /\ nSlow = 0

SpecFail == InitFail /\ [][NextFail]_vars

NotFoundErrors == {NoEventsError, NoIncompleteError}

ListFailed == "An error occured during listing events." \in console

InsertFailed == "There was an error creating a start event." \in console

\* the open events of s that start in the seven days up to t
OpenInWindow(s, t) == {e \in OpenEvents(s) : t - LookbackMs <= e.start /\ e.start <= t}

\* C16: a report or end called while no open event starts in the seven days before
\* it creates and patches nothing and leaves the store as it was; unless its list
\* call itself fails it rejects with a not-found error, which is not the error of a
\* failed remote call.
C16_NoOpenSessionFails ==
    (Last.kind \in {"logActivity", "logEnd"} /\ OpenInWindow(Last.pre, Last.time0) = {}) =>
        /\ Last.nList = 1
        /\ Last.nInsert = 0
        /\ Last.nPatch = 0
        /\ store = Last.pre
        /\ Idle =>
            /\ Last.status = "rejected"
            /\ IF ListFailed THEN Last.error = TransportError
               ELSE Last.error \in NotFoundErrors /\ Last.error # TransportError

\* not found although an open log of nine days ago is in the calendar
C16_Witness ==
    /\ Idle
    /\ Last.kind = "logActivity"
    /\ Last.status = "rejected"
    /\ Last.error = NoEventsError
    /\ OpenEvents(store) # {}
    /\ store = Last.pre

\* the summary of the operation before the last one
Previous ==
    LET n == IF Last.status = "pending" THEN Len(hist) ELSE Len(hist) - 1
    IN IF n >= 1 THEN hist[n] ELSE Summary(NoOp)

\* a report that closed the only open log for inactivity and whose start then failed
StartFailedAfterClose(o) ==
    /\ o.kind = "logActivity"
    /\ o.status = "rejected"
    /\ o.error = TransportError
    /\ o.lapsed
    /\ o.retries = 0

\* C17: when a report has closed the stale log and its start fails, the report
\* rejects with the error of the failed call, lists no second time, the stale event
\* stays closed with the inactivity line, nothing else in the store has changed and
\* no event that was open before is open except the others that were open; a report
\* or end that follows while no event is open creates and patches nothing and
\* rejects with a not-found error.
C17_FailedRestartLeavesNoSession ==
    /\ (StartFailedAfterClose(Last) /\ InsertFailed) =>
        LET k == Last.stale
        IN /\ Idle /\ inflight = {}
           /\ Last.nList = 1 /\ Last.nClose = 1 /\ Last.nPatch = 1 /\ Last.nInsert = 1
           /\ Len(store) = Len(Last.pre)
           /\ \A i \in 1..Len(store) : i # k => store[i] = Last.pre[i]
           /\ store[k].completed = "true"
           /\ store[k].description =
                Append(Last.pre[k].description, LineAt(Last.time0, InactivityText))
           /\ OpenEvents(store) = OpenEvents(Last.pre) \ {Last.pre[k]}
           /\ Cardinality(OpenEvents(Last.pre)) = 1 => OpenEvents(store) = {}
    /\ (/\ Last.kind \in {"logActivity", "logEnd"}
        /\ StartFailedAfterClose(Previous)
        /\ Previous.openBefore = 1
        /\ OpenEvents(Last.pre) = {}) =>
            /\ Last.nInsert = 0 /\ Last.nPatch = 0
            /\ store = Last.pre
            /\ (Idle /\ ~ListFailed) =>
                    Last.status = "rejected" /\ Last.error \in NotFoundErrors

C17_Witness ==
    /\ Idle
    /\ Last.kind = "logEnd"
    /\ Last.status = "rejected"
    /\ Last.error = NoIncompleteError
    /\ StartFailedAfterClose(Previous)
    /\ Previous.openBefore = 1
    /\ OpenEvents(store) = {}
    /\ \E i \in 1..Len(store) : HasLine(store[i], InactivityText)

\* the events of the store that an operation begun at store pre has patched
Patched(pre) ==
    {i \in 1..Len(store) : IF i <= Len(pre) THEN store[i] # pre[i]
                           ELSE store[i].updated # store[i].created}

\* C18: an operation whose remote call fails rejects with the error of that call
\* and nothing of it remains in flight; the failed call has had no effect and was
\* not issued again, so the store holds the effects of the calls issued before it
\* and no more.
C18_FailureEndsOperation ==
    (Last.status = "rejected" /\ Last.error \notin NotFoundErrors) =>
        /\ Last.error = TransportError
        /\ Idle
        /\ inflight = {}
        /\ Len(store) - Len(Last.pre) = Last.nInsert - (IF InsertFailed THEN 1 ELSE 0)
        /\ Cardinality(Patched(Last.pre)) =
                Last.nPatch - (IF InsertFailed \/ ListFailed THEN 0 ELSE 1)
        /\ Last.kind = "logStart" => Last.nInsert = 1 /\ Last.nList = 0 /\ Last.nPatch = 0
        /\ Last.kind = "logEnd" => Last.nInsert = 0 /\ Last.nList = 1 /\ Last.nPatch <= 1
        /\ Last.kind = "logActivity" => Last.nList = Last.retries + 1
                                        /\ Last.nInsert <= 1 /\ Last.nPatch <= 2

\* the retried report of a lapse: the close and the start succeeded, the patch of
\* the activity failed
C18_Witness ==
    /\ Idle
    /\ Last.kind = "logActivity"
    /\ Last.status = "rejected"
    /\ Last.error = TransportError
    /\ Last.retries = 1
    /\ Last.nPatch = 2
    /\ ~ListFailed

\* C19: in a sequential run no step changes an event whose marker is closed, and
\* every event that a step adds is open and has an identifier that no event of the
\* store has.
C19_ClosedIsTerminal ==
    [][/\ \A i \in 1..Len(store) :
            store[i].completed = "true" => (i <= Len(store') /\ store'[i] = store[i])
       /\ Len(store') # Len(store) =>
            /\ Len(store') = Len(store) + 1
            /\ SubSeq(store', 1, Len(store)) = store
            /\ IsOpen(store'[Len(store')])
            /\ \A i \in 1..Len(store) : store[i].id # store'[Len(store')].id]_vars

\* after an end and after a close for inactivity a third event is being extended
C19_Witness ==
    /\ Idle
    /\ Last.kind = "logActivity"
    /\ Last.status = "resolved"
    /\ Cardinality({i \in 1..Len(Last.pre) : Last.pre[i].completed = "true"}) >= 1
    /\ Last.target > 0
    /\ \A i \in 1..Len(Last.pre) : Last.pre[i].completed = "true" => i < Last.target
    /\ \E i \in 1..Len(hist) : hist[i].kind = "logEnd" /\ hist[i].status = "resolved"

(***************************************************************************)
(* Reports whose message may hold a line break                             *)
(***************************************************************************)
\* operations of one run with such messages
MaxTextOps == 3

\* a message of two lines
TwoLines(k) == <<MessageNames[k], Newline, "more">>

Texts(k) == {Message(k), TwoLines(k)}

\* one logger used sequentially; responses arrive without delay
NextText ==
    \/ Idle /\ nOps < MaxTextOps /\ CallLogStart(1)
    \/ Idle /\ nOps < MaxTextOps /\ \E msg \in Texts(nOps + 1) : CallLogActivityMsg(1, msg)
    \/ Idle /\ nOps < MaxTextOps /\ CallLogEnd(1)
    \/ \E r \in inflight : RespondInsert(r, FALSE)
    \/ \E r \in inflight : RespondList(r)
    \/ \E r \in inflight : RespondPatch(r)

SpecText == Init /\ [][NextText]_vars

\* the text that the patch now in flight writes: the inactivity notice, the
\* concluded text or the message of the report
PatchText ==
    IF pc[1] = "awaitClose" THEN InactivityText
    ELSE IF frame[1].outer = "logEnd" THEN ConcludedText
    ELSE Last.msg

IsStampedLine(line, t) == line.hh = getHours(t) /\ line.mm = getMinutes(t)

\* C20 as stated: every step that changes the description of an event leaves the
\* earlier lines as they were and adds exactly one line, which begins with the time
\* of the operation.
C20_OneLinePerPatch ==
    [][\A i \in 1..Len(store) :
        LET old == store[i].description
            new == store'[i].description
        IN new # old =>
            /\ old # <<>>
            /\ Len(new) = Len(old) + 1
            /\ SubSeq(new, 1, Len(old)) = old
            /\ IsStampedLine(new[Len(new)], frame[1].time)]_vars

\* C20 amended: every step that changes the description of an event leaves the
\* earlier lines as they were and adds lines after them, the first of which begins
\* with the time of the operation; when the text written holds no line break
\* exactly one line is added, the time followed by that text.
C20_AppendOnly ==
    [][\A i \in 1..Len(store) :
        LET old == store[i].description
            new == store'[i].description
            breaks == Cardinality({j \in 1..Len(PatchText) : PatchText[j] = Newline})
        IN new # old =>
            /\ old # <<>>
            /\ Len(new) = Len(old) + 1 + breaks
            /\ SubSeq(new, 1, Len(old)) = old
            /\ IsStampedLine(new[Len(old) + 1], frame[1].time)
            /\ breaks = 0 => new = Append(old, LineAt(frame[1].time, PatchText))]_vars

\* a start, a report of one line and a report of two lines on the same event
C20_Witness ==
    /\ Idle
    /\ Last.kind = "logActivity"
    /\ Last.status = "resolved"
    /\ ~Last.lapsed
    /\ Last.msg = TwoLines(3)
    /\ Len(store[Last.target].description) = 4
    /\ store[Last.target].description[2].text = Message(2)
    /\ store[Last.target].description[3].text = <<"m3">>
    /\ store[Last.target].description[4].text = <<"more">>

(***************************************************************************)
(* The description as the text that addToDescription builds, and the       *)
(* function applied to given times, descriptions and activities            *)
(***************************************************************************)
\* descriptions built in one run
MaxEncode == 2

DigitNames == <<"0", "1", "2", "3", "4", "5", "6", "7", "8", "9">>

\* `${n}` for a number of at most two digits
Digits(n) ==
    IF n < 10 THEN <<DigitNames[n + 1]>>
    ELSE <<DigitNames[(n \div 10) + 1], DigitNames[(n % 10) + 1]>>

\* a mutation: the number is not padded
Pad2Unpadded(n) == Digits(n)

\* `0${n}`.slice(-2)
Pad2(n) ==
    LET padded == <<"0">> \o Digits(n)
    IN SubSeq(padded, Len(padded) - 1, Len(padded))

\* the dash between the time and the activity
EnDash == "en dash"

\* `${hh}:${mm} – `
TimePrefix(hh, mm) == Pad2(hh) \o <<":">> \o Pad2(mm) \o <<" ", EnDash, " ">>

\* addToDescription on the text itself
addToDescriptionString(date, activity, description) ==
    (IF description # <<>> THEN description \o <<Newline>> ELSE description)
        \o TimePrefix(getHours(date), getMinutes(date)) \o activity

\* the text of one line of a description
LineString(line) ==
    IF line.hh = Undefined THEN line.text ELSE TimePrefix(line.hh, line.mm) \o line.text

RECURSIVE DescriptionString(_)
\* the text of a description: its lines joined by line breaks
DescriptionString(description) ==
    IF description = <<>> THEN <<>>
    ELSE IF Len(description) = 1 THEN LineString(description[1])
    ELSE DescriptionString(SubSeq(description, 1, Len(description) - 1))
            \o <<Newline>> \o LineString(description[Len(description)])

EncodeTimes ==
    {InitNow, InitNow + (9 * 60 + 5) * MsPerMinute, InitNow + (13 * 60 + 45) * MsPerMinute,
     InitNow + (23 * 60 + 59) * MsPerMinute}

EncodeElapse == {MsPerMinute, 61 * MsPerMinute}

\* no description, the line of a start, a note that somebody typed
EncodePriors ==
    {<<>>,
     <<[hh |-> 9, mm |-> 5, text |-> <<"Started working on", "Cal">>]>>,
     <<[hh |-> Undefined, mm |-> Undefined, text |-> <<"note", ":", "x">>]>>}

EncodeTexts ==
    {<<>>, <<"m1">>, <<"a", ":", "b">>, <<"09", ":", "05", " ", EnDash, " ", "x">>, <<"m1", Newline, "more">>}

InitEncode ==
    /\ now \in EncodeTimes
    /\ store \in {<<[NoEvent EXCEPT !.id = 1, !.description = d, !.completed = "false",
                                    !.start = InitNow, !.end = InitNow + PlaceholderMs,
                                    !.updated = InitNow, !.created = InitNow]>> :
                    d \in EncodePriors}
    /\ initStore = store
    /\ options \in {ValidOptions(c, Undefined, NoOverrides) : c \in CalendarSummaries}
    /\ Constructed
    /\ Connected
    /\ pc = [p \in Procs |-> "idle"]
    /\ frame = [p \in Procs |-> NoFrame]
    /\ inflight = {}
    /\ console = {}
    /\ op = [p \in Procs |-> NoOp]
    /\ hist = <<>>
    /\ lastMutation = "none"
    /\ nOps = 0
    /\ nSlow = 0

\* description = addToDescription(date, activity, description)
Describe ==
    /\ Len(hist) < MaxEncode
    /\ \E activity \in EncodeTexts, d \in EncodeElapse :
        LET o == [NewOp("addToDescription", activity, now) EXCEPT !.status = "resolved"]
        IN /\ store' = [store EXCEPT ![1].description = addToDescription(now, activity, @)]
           /\ op' = [op EXCEPT ![1] = o]
           /\ hist' = Append(hist, Summary(o))
           /\ now' = now + d
    /\ UNCHANGED <<config, connection, pc, frame, inflight, console, initStore, lastMutation, nOps, nSlow>>

NextEncode == Describe

SpecEncode == InitEncode /\ [][NextEncode]_vars

\* reading a description back: its last line, what stands before it, and a line
\* without the time in front
PrefixLen == Len(TimePrefix(0, 0))

LineBreaks(text) == {i \in 1..Len(text) : text[i] = Newline}

LastBreak(text) == CHOOSE i \in LineBreaks(text) : \A j \in LineBreaks(text) : j <= i

LastLine(text) ==
    IF LineBreaks(text) = {} THEN text ELSE SubSeq(text, LastBreak(text) + 1, Len(text))

BeforeLastLine(text) ==
    IF LineBreaks(text) = {} THEN <<>> ELSE SubSeq(text, 1, LastBreak(text) - 1)

StripPrefix(line) == SubSeq(line, PrefixLen + 1, Len(line))

\* C21: the description of the event is the text that addToDescription builds from
\* the time, the activity and the text of the description before; when the activity
\* holds no line break, the last line of that text without its 'HH:MM - ' in front
\* is the activity, and what stands before the last line is the text before.
C21_RoundTrip ==
    Last.kind = "addToDescription" =>
        LET prior == DescriptionString(Last.pre[1].description)
            written == addToDescriptionString(Last.time0, Last.msg, prior)
        IN /\ DescriptionString(store[1].description) = written
           /\ LineBreaks(Last.msg) = {} =>
                /\ StripPrefix(LastLine(written)) = Last.msg
                /\ BeforeLastLine(written) = prior

\* at 09:06 an activity that itself looks like a time is added to a description
C21_Witness ==
    /\ Last.kind = "addToDescription"
    /\ getHours(Last.time0) = 9
    /\ Last.msg = <<"09", ":", "05", " ", EnDash, " ", "x">>
    /\ Len(Last.pre[1].description) = 2
    /\ Len(store[1].description) = 3
    /\ StripPrefix(LastLine(DescriptionString(store[1].description))) = Last.msg

(***************************************************************************)
(* Construction and the connection with the calendar                       *)
(***************************************************************************)
RequiredValues(valid) == {Missing, Str(""), NotAString, Str(valid)}

ConnectOptions ==
    {[credentialsPath |-> c, tokenPath |-> t, calendar |-> n,
      minutesUntilInactivity |-> m, strings |-> NoOverrides] :
        c \in RequiredValues("credentials.json"), t \in RequiredValues("token.json"),
        n \in RequiredValues("Cal"), m \in MinutesOptions}

\* the calendars of an account with the given titles
Calendars(titles) == [i \in 1..Len(titles) |-> [id |-> i, summary |-> titles[i]]]

CalendarTitles ==
    {<<>>, <<"cal">>, <<"Cal">>, <<"Cal 2", "Cal", "Cal">>, <<"Primary", "Cal ">>}

\* before new GoogleCalendarLogger(options)
InitConnect ==
    /\ now = InitNow
    /\ store = <<>>
    /\ initStore = store
    /\ options \in ConnectOptions
    /\ calendarList \in {Calendars(titles) : titles \in CalendarTitles}
    /\ credentialsPath = ""
    /\ tokenPath = ""
    /\ calendarSummary = ""
    /\ minutesUntilInactivity = DefaultMinutesUntilInactivity
    /\ strings = getDefaultStrings
    /\ calendarConnection = "no instance"
    /\ calendarId = 0
    /\ thrown = ""
    /\ files = {"credentials.json", "token.json"}
    /\ auth = "none"
    /\ pc = [p \in Procs |-> "idle"]
    /\ frame = [p \in Procs |-> NoFrame]
    /\ inflight = {}
    /\ console = {}
    /\ op = [p \in Procs |-> NoOp]
    /\ hist = <<>>
    /\ lastMutation = "none"
    /\ nOps = 0
    /\ nSlow = 0

\* a call of the connection, which belongs to no caller
ConnectRequest(call) ==
    Request(0, call, Undefined, Undefined, 0, [NoResource EXCEPT !.summary = <<calendarSummary>>])

\* the constructor: defaults, the setters in their order, then initCalendarConnection,
\* which starts the authorization; a setter that throws ends it
Construct ==
    LET c == setCredentialsPath(options.credentialsPath)
        t == setTokenPath(options.tokenPath)
        n == setCalendarSummary(options.calendar)
        error == IF c.error # "" THEN c.error ELSE IF t.error # "" THEN t.error ELSE n.error
    IN /\ calendarConnection = "no instance"
       /\ credentialsPath' = c.value
       /\ tokenPath' = IF c.error = "" THEN t.value ELSE ""
       /\ calendarSummary' = IF c.error = "" /\ t.error = "" THEN n.value ELSE ""
       /\ minutesUntilInactivity' =
            IF error = "" THEN setMinutesUntilInactivity(options.minutesUntilInactivity)
            ELSE DefaultMinutesUntilInactivity
       /\ strings' = IF error = "" THEN setStringsOverrides(options.strings)
                     ELSE getDefaultStrings
       /\ thrown' = error
       /\ calendarConnection' = IF error = "" THEN "pending" ELSE "undefined"
       /\ inflight' = IF error = ""
                      THEN {Request(0, "authorize", Undefined, Undefined, 0, NoResource)}
                      ELSE inflight
       /\ UNCHANGED <<now, store, pc, frame, console, op, hist, initStore, lastMutation,
                      nOps, nSlow, options, calendarId, calendarList, files, auth>>

\* googleAPIGetAuth resolves, both files were read; getOrCreateCalendar issues
\* calendarList.list
Authorized(r) ==
    /\ r \in inflight
    /\ r.call = "authorize"
    /\ credentialsPath \in files
    /\ tokenPath \in files
    /\ now' = now + FastLatency
    /\ auth' = "oAuth2Client"
    /\ inflight' = (inflight \ {r}) \cup {ConnectRequest("calendarList.list")}
    /\ UNCHANGED <<store, config, pc, frame, console, op, hist, initStore, lastMutation,
                   nOps, nSlow, options, credentialsPath, tokenPath, calendarConnection,
                   calendarId, calendarList, thrown, files>>

\* a mutation: the last calendar of that title is taken
FindCalendarLast(items, summary) ==
    LET matches == {i \in 1..Len(items) : items[i].summary = summary}
    IN IF matches = {} THEN 0 ELSE CHOOSE i \in matches : \A j \in matches : j <= i

\* response.data.items.find(item => item.summary === calendarSummary): the place of
\* the calendar found, 0 when there is none
FindCalendar(items, summary) ==
    LET matches == {i \in 1..Len(items) : items[i].summary = summary}
    IN IF matches = {} THEN 0 ELSE CHOOSE i \in matches : \A j \in matches : i <= j

\* the callback of calendarList.list
RespondCalendarList(r) ==
    LET found == FindCalendar(calendarList, calendarSummary)
    IN /\ r \in inflight
       /\ r.call = "calendarList.list"
       /\ now' = now + FastLatency
       /\ IF found # 0
          THEN /\ console' = console \cup {"Found calendar"}
               /\ calendarId' = calendarList[found].id
               /\ calendarConnection' = "resolved"
               /\ inflight' = inflight \ {r}
          ELSE /\ console' = console \cup {"Creating calendar"}
               /\ inflight' = (inflight \ {r}) \cup {ConnectRequest("calendars.insert")}
               /\ UNCHANGED <<calendarId, calendarConnection>>
       /\ UNCHANGED <<store, config, pc, frame, op, hist, initStore, lastMutation, nOps,
                      nSlow, options, credentialsPath, tokenPath, calendarList, thrown,
                      files, auth>>

\* the error of the callback of calendars.insert
CreatedError == "ReferenceError: calenderSummary is not defined"

\* the callback of calendars.insert: the calendar exists; the line that prints
\* 'Created calendar' reads calenderSummary, a name that is not declared, so a
\* ReferenceError leaves the callback before resolve(response.data)
RespondCalendarInsert(r) ==
    /\ r \in inflight
    /\ r.call = "calendars.insert"
    /\ now' = now + FastLatency
    /\ calendarList' = Append(calendarList, [id |-> Len(calendarList) + 1,
                                             summary |-> r.resource.summary[1]])
    /\ thrown' = CreatedError
    /\ inflight' = inflight \ {r}
    /\ UNCHANGED <<store, config, pc, frame, console, op, hist, initStore, lastMutation,
                   nOps, nSlow, options, credentialsPath, tokenPath, calendarConnection,
                   calendarId, files, auth>>

NextConnect ==
    \/ Construct
    \/ \E r \in inflight : Authorized(r)
    \/ \E r \in inflight : RespondCalendarList(r)
    \/ \E r \in inflight : RespondCalendarInsert(r)

SpecConnect == InitConnect /\ [][NextConnect]_vars

\* a required option that is missing, empty or not a string
Unusable(value) == value.type # "string" \/ value.text = ""

RequiredMissing ==
    \/ Unusable(options.credentialsPath)
    \/ Unusable(options.tokenPath)
    \/ Unusable(options.calendar)

\* C22: when the constructor has run with a required option missing, empty or not a
\* string it has thrown, the connection was not set up and no call is in flight;
\* with the three options usable it has not thrown and the connection is set up.
C22_ConstructorValidates ==
    calendarConnection # "no instance" =>
        IF RequiredMissing
        THEN /\ thrown # ""
             /\ calendarConnection = "undefined"
             /\ inflight = {}
             /\ calendarId = 0
        ELSE /\ calendarConnection \in {"pending", "resolved"}
             /\ credentialsPath = options.credentialsPath.text
             /\ tokenPath = options.tokenPath.text
             /\ calendarSummary = options.calendar.text

\* both paths are given and the calendar's name is the empty string
C22_Witness ==
    /\ calendarConnection = "undefined"
    /\ credentialsPath = "credentials.json"
    /\ tokenPath = "token.json"
    /\ options.calendar = Str("")
    /\ thrown = "Missing or incorrect value for required option 'calendar'"
    /\ inflight = {}

\* the places of the listed calendars whose title is the configured name
Titled == {i \in 1..Len(calendarList) : calendarList[i].summary = options.calendar.text}

Creating == \E r \in inflight : r.call = "calendars.insert"

\* the calendars of that title that the listing showed: all but one just created
Visible == IF thrown = CreatedError THEN Titled \ {Len(calendarList)} ELSE Titled

\* C24: when a calendar with exactly the configured title is listed, no calendar is
\* created and the connection resolves with the identifier of the first of them;
\* a connection that has resolved never holds a calendar of another title.
C24_FirstCalendarOfThatTitle ==
    /\ (~RequiredMissing /\ Visible # {}) =>
        /\ ~Creating
        /\ "Creating calendar" \notin console
        /\ thrown = ""
        /\ calendarConnection = "resolved" =>
                calendarId = calendarList[CHOOSE i \in Visible : \A j \in Visible : i <= j].id
        /\ ~(calendarConnection = "pending" /\ inflight = {})
    /\ calendarConnection = "resolved" =>
        \E i \in Titled : calendarList[i].id = calendarId

\* of three calendars the second and the third have the title
C24_Witness ==
    /\ calendarConnection = "resolved"
    /\ Len(calendarList) = 3
    /\ Titled = {2, 3}
    /\ calendarId = 2
    /\ "Found calendar" \in console

\* C25: when the calendar has been created because none had the title, there is one
\* calendar of that title, the connection is ready and the identifier is the new
\* calendar's.
C25_CreatedCalendarIsUsed ==
    ("Creating calendar" \in console /\ inflight = {}) =>
        /\ Cardinality(Titled) = 1
        /\ calendarConnection = "resolved"
        /\ calendarId = calendarList[Len(calendarList)].id

(***************************************************************************)
(* Loggers constructed with and without overrides of the optional options  *)
(***************************************************************************)
\* operations of one run of such a logger
MaxConfigOps == 3

ConfigMinutes == {Undefined, 0, 1, StringValue}

ConfigStrings == {NoOverrides, LiteralOverrides, NotAnObject}

InitConfig ==
    /\ now = InitNow
    /\ store \in InitStores
    /\ initStore = store
    /\ options \in {ValidOptions(c, m, o) :
                        c \in CalendarSummaries, m \in ConfigMinutes, o \in ConfigStrings}
    /\ Constructed
    /\ Connected
    /\ pc = [p \in Procs |-> "idle"]
    /\ frame = [p \in Procs |-> NoFrame]
    /\ inflight = {}
    /\ console = {}
    /\ op = [p \in Procs |-> NoOp]
    /\ hist = <<>>
    /\ lastMutation = "none"
    /\ nOps = 0
    /\ nSlow = 0

\* one logger used sequentially, logActivity with and without a message
NextConfig ==
    \/ Idle /\ nOps < MaxConfigOps /\ CallLogStart(1)
    \/ Idle /\ nOps < MaxConfigOps /\ CallLogActivity(1)
    \/ Idle /\ nOps < MaxConfigOps /\ CallLogActivityDefault(1)
    \/ Idle /\ nOps < MaxConfigOps /\ CallLogEnd(1)
    \/ \E r \in inflight : RespondInsert(r, FALSE)
    \/ \E r \in inflight : RespondList(r)
    \/ \E r \in inflight : RespondPatch(r)

SpecConfig == InitConfig /\ [][NextConfig]_vars

\* the threshold that the options ask for: their value when it is a positive
\* number, ten minutes otherwise
ThresholdAsked ==
    LET m == options.minutesUntilInactivity
    IN IF m \in {Undefined, StringValue} THEN 10 ELSE IF m > 0 THEN m ELSE 10

\* the string of that key that the options ask for
StringAsked(k) ==
    IF options.strings.type = "object" /\ k \in options.strings.given
    THEN options.strings.fields[k]
    ELSE getDefaultStrings[k]

\* C23: in every state the threshold, the strings and the calendar title are what
\* the options of the constructor ask for, an override where one was given and the
\* default otherwise, whatever operations have run; and every decision on
\* inactivity was made with that threshold.
C23_ConfigurationFixed ==
    /\ minutesUntilInactivity = ThresholdAsked
    /\ calendarSummary = options.calendar.text
    /\ \A k \in DOMAIN getDefaultStrings : strings[k] = StringAsked(k)
    /\ (Last.kind \in {"logActivity", "logEnd"} /\ Last.stale > 0) =>
            Last.time0 - StampOf(Last.pre[Last.stale]) > ThresholdAsked * 60000
    /\ (Last.kind \in {"logActivity", "logEnd"} /\ ~Last.lapsed /\ Last.target > 0) =>
            Last.time0 - StampOf(Last.pre[Last.target]) <= ThresholdAsked * 60000

\* with one minute asked for, the third operation finds inactivity after five
\* minutes
C23_Witness ==
    /\ options.minutesUntilInactivity = 1
    /\ options.strings = LiteralOverrides
    /\ Len(hist) = 3
    /\ Last.kind = "logEnd"
    /\ Last.status = "resolved"
    /\ Last.lapsed
    /\ Last.time0 - StampOf(Last.pre[Last.stale]) < 10 * 60000

\* a report that was called without a message
WithoutMessage(o) ==
    o.kind = "logActivity" /\ o.msg \notin {Message(k) : k \in 1..Len(MessageNames)}

\* C27: the line that a report without a message has added to the event is the
\* activityLogged string, evaluated for the calendar title when it is a function.
C27_DefaultMessageResolved ==
    (WithoutMessage(Last) /\ Last.status = "resolved") =>
        LET description == store[Last.target].description
        IN description[Len(description)].text = getLogName(strings.activityLogged)

(***************************************************************************)
(* Two callers that report against the same calendar without waiting for   *)
(* each other                                                              *)
(***************************************************************************)
\* the time between two calls in quick succession
QuickGap == PlaceholderMs \div 2

\* an open log whose last activity was that many minutes before construction
OpenLog(minutes) ==
    [id |-> 1, summary |-> <<"Working on", "Cal">>,
     description |-> <<[hh |-> 23, mm |-> 0, text |-> <<"Started working on", "Cal">>]>>,
     start |-> InitNow - 60 * MsPerMinute,
     end |-> InitNow - minutes * MsPerMinute,
     updated |-> InitNow - minutes * MsPerMinute,
     created |-> InitNow - 60 * MsPerMinute,
     completed |-> "false"]

InitTwo ==
    /\ now = InitNow
    /\ store \in {<<OpenLog(20)>>, <<OpenLog(2)>>}
    /\ initStore = store
    /\ options \in {ValidOptions(c, Undefined, NoOverrides) : c \in CalendarSummaries}
    /\ Constructed
    /\ Connected
    /\ pc = [p \in Procs |-> "idle"]
    /\ frame = [p \in Procs |-> NoFrame]
    /\ inflight = {}
    /\ console = {}
    /\ op = [p \in Procs |-> NoOp]
    /\ hist = <<>>
    /\ lastMutation = "none"
    /\ nOps = 0
    /\ nSlow = 0

\* each caller reports once, whatever the other is doing; when both reports have
\* settled the first caller ends the log
NextTwo ==
    \/ \E p \in Procs :
        op[p].kind = "none" /\ CallLogActivityAfter(p, Message(nOps + 1), QuickGap)
    \/ Idle /\ nOps = Cardinality(Procs) /\ CallLogEndAfter(1, QuickGap)
    \/ \E r \in inflight : RespondInsert(r, FALSE)
    \/ \E r \in inflight : RespondList(r)
    \/ \E r \in inflight : RespondPatch(r)

SpecTwo == InitTwo /\ [][NextTwo]_vars

\* both callers have found the log of the calendar stale
BothSplit == \A p \in Procs : op[p].kind = "logActivity" /\ op[p].stale = 1

\* C26: when two interleaved reports have both found the same open event stale,
\* both resolve and two events are open afterwards, where one was open before; an
\* end that follows finds both in its window, does not fail and closes one of them.
C26_TwoOpenAfterInterleavedSplit ==
    /\ (BothSplit /\ Idle) =>
        /\ \A p \in Procs : op[p].status = "resolved"
        /\ Cardinality(OpenEvents(initStore)) = 1
        /\ Cardinality(OpenEvents(store)) = 2
        /\ ~IsOpen(store[1])
    /\ (/\ Idle
        /\ Last.kind = "logEnd"
        /\ \A i \in 1..Cardinality(Procs) : hist[i].lapsed) =>
            /\ Last.windowOpen = 2
            /\ Last.status = "resolved"
            /\ Cardinality(OpenEvents(store)) = 1

\* both reports have split the stale log and the end has closed one of the two
\* new events
C26_Witness ==
    /\ Idle
    /\ Last.kind = "logEnd"
    /\ Last.status = "resolved"
    /\ Last.windowOpen = 2
    /\ hist[1].lapsed /\ hist[2].lapsed
    /\ hist[1].status = "resolved" /\ hist[2].status = "resolved"
    /\ Len(store) = 3
    /\ Cardinality(OpenEvents(store)) = 1

\* C28: no step removes an event or changes the identifier or the start of one, and
\* a step changes an event only if the event is marked completed 'false' and was
\* marked so in the listing that the operation has fetched; events without the
\* marker and closed events stay as they are.
C28_OnlyListedOpenEventsChange ==
    [][/\ Len(store') >= Len(store)
       /\ \A i \in 1..Len(store) :
            /\ store'[i].id = store[i].id
            /\ store'[i].start = store[i].start
            /\ store'[i] # store[i] =>
                /\ store[i].completed = "false"
                /\ \E j \in 1..Len(Last.window) :
                        Last.window[j].id = i /\ Last.window[j].completed = "false"
            /\ store[i].completed \in {"none", "true"} => store'[i] = store[i]]_vars

\* beside somebody's lunch and a closed log a third event has been extended
C28_Witness ==
    /\ Idle
    /\ Last.kind = "logActivity"
    /\ Last.status = "resolved"
    /\ Len(store) = 3
    /\ store[1] = ForeignEvent
    /\ store[2].completed = "true"
    /\ Last.target = 3
    /\ Last.windowSize = 3

(***************************************************************************)
(* One logger whose calls may follow each other within the second          *)
(***************************************************************************)
MaxQuickOps == 3

\* half a second, or long enough for the log to lapse
QuickGaps == {QuickGap, 11 * MsPerMinute}

InitQuick ==
    /\ now = InitNow
    /\ store \in InitStores
    /\ initStore = store
    /\ options \in {ValidOptions(c, Undefined, NoOverrides) : c \in CalendarSummaries}
    /\ Constructed
    /\ Connected
    /\ pc = [p \in Procs |-> "idle"]
    /\ frame = [p \in Procs |-> NoFrame]
    /\ inflight = {}
    /\ console = {}
    /\ op = [p \in Procs |-> NoOp]
    /\ hist = <<>>
    /\ lastMutation = "none"
    /\ nOps = 0
    /\ nSlow = 0

NextQuick ==
    \/ \E gap \in QuickGaps : Idle /\ nOps < MaxQuickOps /\ CallLogStartAfter(1, gap)
    \/ \E gap \in QuickGaps :
        Idle /\ nOps < MaxQuickOps /\ CallLogActivityAfter(1, Message(nOps + 1), gap)
    \/ \E gap \in QuickGaps : Idle /\ nOps < MaxQuickOps /\ CallLogEndAfter(1, gap)
    \/ \E r \in inflight : RespondInsert(r, FALSE)
    \/ \E r \in inflight : RespondList(r)
    \/ \E r \in inflight : RespondPatch(r)

SpecQuick == InitQuick /\ [][NextQuick]_vars

\* C29: a patch of logActivity never sets the end of an event earlier than the end
\* the event had before, also when the report comes less than a second after
\* logStart, and no event ends before it starts.
C29_ActivityOnlyExtends ==
    [][\A i \in 1..Len(store) :
        /\ Last.kind = "logActivity" => store'[i].end >= store[i].end
        /\ store'[i].end >= store'[i].start]_vars

\* the caller's close of a stale log is answered in this step
CloseAnswered(p) == pc[p] = "awaitClose" /\ pc'[p] # "awaitClose"

\* C30: the close for inactivity, from logActivity as from logEnd, marks the stale
\* event completed and leaves its end as it was: the end is the time of the last
\* report patched into the event, or the start plus the placeholder second when
\* nothing was reported, and it lies before the time the lapse was detected.
C30_LapseCloseKeepsEnd ==
    [][\A p \in Procs : CloseAnswered(p) =>
        LET k == frame[p].latest.id
        IN /\ frame[p].outer \in {"logActivity", "logEnd"}
           /\ store'[k].completed = "true"
           /\ HasLine(store'[k], InactivityText)
           /\ store'[k].end = store[k].end
           /\ store'[k].start = store[k].start
           /\ \/ store'[k].end = store[k].start + PlaceholderMs
              \/ store'[k].end <= store[k].updated
           /\ store'[k].end < frame[p].time]_vars

\* a log without a report was closed for inactivity by logActivity and the log
\* that followed it, with a report, by logEnd
C30_Witness ==
    /\ Idle
    /\ Len(hist) = 3
    /\ hist[2].kind = "logActivity" /\ hist[2].lapsed
    /\ hist[3].kind = "logEnd" /\ hist[3].lapsed /\ hist[3].status = "resolved"
    /\ \E i, j \in 1..Len(store) :
        /\ i < j
        /\ store[i].completed = "true" /\ HasLine(store[i], InactivityText)
        /\ store[i].end = store[i].start + PlaceholderMs
        /\ store[j].completed = "true" /\ HasLine(store[j], InactivityText)
        /\ store[j].end < store[j].start + PlaceholderMs
        /\ store[j].end + msUntilInactivity < hist[3].time

(***************************************************************************)
(* Operations called while the connection is being set up                  *)
(***************************************************************************)
MaxAwaitOps == 2

\* a mutation: the operation goes on while the promise is pending
AwaitedPending(promise) == promise \in {"pending", "resolved"}

\* await promise: the function goes on when the promise has resolved
Awaited(promise) == promise = "resolved"

\* the account has the calendar, has it behind another one, or has none of that title
AwaitTitles == {<<"Cal">>, <<"Primary", "Cal">>, <<"cal">>}

\* before new GoogleCalendarLogger(options), with usable options
InitAwait ==
    /\ now = InitNow
    /\ store \in InitStores
    /\ initStore = store
    /\ options \in {ValidOptions(c, Undefined, NoOverrides) : c \in CalendarSummaries}
    /\ calendarList \in {Calendars(titles) : titles \in AwaitTitles}
    /\ credentialsPath = ""
    /\ tokenPath = ""
    /\ calendarSummary = ""
    /\ minutesUntilInactivity = DefaultMinutesUntilInactivity
    /\ strings = getDefaultStrings
    /\ calendarConnection = "no instance"
    /\ calendarId = 0
    /\ thrown = ""
    /\ files = {"credentials.json", "token.json"}
    /\ auth = "none"
    /\ pc = [p \in Procs |-> "idle"]
    /\ frame = [p \in Procs |-> NoFrame]
    /\ inflight = {}
    /\ console = {}
    /\ op = [p \in Procs |-> NoOp]
    /\ hist = <<>>
    /\ lastMutation = "none"
    /\ nOps = 0
    /\ nSlow = 0

\* logStart, logActivity or logEnd called on an instance whose connection has not
\* resolved: the function is suspended at its first line
AwaitConnection(p, kind, activityDescription) ==
    /\ pc[p] = "idle"
    /\ nOps < MaxAwaitOps
    /\ calendarConnection \in {"pending", "rejected"}
    /\ pc' = [pc EXCEPT ![p] = "awaitConnection"]
    /\ frame' = [frame EXCEPT ![p] =
                    [NoFrame EXCEPT !.outer = kind,
                                    !.activityDescription = activityDescription]]
    /\ op' = [op EXCEPT ![p] = NewOp(kind, activityDescription, Undefined)]
    /\ nOps' = nOps + 1
    /\ UNCHANGED <<now, store, config, connection, inflight, console, hist, initStore,
                   lastMutation, nSlow>>

\* the connection has resolved: the suspended function reads the clock and issues
\* its first call, events.insert in logStart and events.list in the others
Proceed(p) ==
    LET t == now
        first == IF frame[p].outer = "logStart" THEN InsertRequest(p, t)
                 ELSE ListRequest(p, t)
    IN /\ pc[p] = "awaitConnection"
       /\ Awaited(calendarConnection)
       /\ frame' = [frame EXCEPT ![p].time = t]
       /\ inflight' = inflight \cup {first}
       /\ op' = [op EXCEPT ![p].time0 = t, ![p].time = t, ![p].pre = store,
                           ![p].nInsert = IF first.call = "insert" THEN 1 ELSE 0,
                           ![p].nList = IF first.call = "list" THEN 1 ELSE 0]
       /\ pc' = [pc EXCEPT ![p] = IF first.call = "insert" THEN "awaitInsert"
                                  ELSE "awaitList"]
       /\ UNCHANGED <<now, store, config, connection, console, hist, initStore,
                      lastMutation, nOps, nSlow>>

ConnectionError == "Could not establish connection with Google Calendar API."

\* calendarList.list or calendars.insert answers with an error: getOrCreateCalendar
\* rejects and so does the connection
RejectCalendarCall(r) ==
    /\ r \in inflight
    /\ r.call \in {"calendarList.list", "calendars.insert"}
    /\ now' = now + FastLatency
    /\ inflight' = inflight \ {r}
    /\ console' = console \cup {ConnectionError}
    /\ calendarConnection' = "rejected"
    /\ UNCHANGED <<store, config, pc, frame, op, hist, initStore, lastMutation, nOps,
                   nSlow, options, credentialsPath, tokenPath, calendarId, calendarList,
                   thrown, files, auth>>

\* await of the rejected connection throws: the operation rejects
ConnectionRejected(p) ==
    /\ pc[p] = "awaitConnection"
    /\ calendarConnection = "rejected"
    /\ Settle(p, "rejected", ConnectionError)
    /\ UNCHANGED <<now, store, config, connection, inflight, console, initStore,
                   lastMutation, nOps, nSlow>>

\* the operations of the instance, whether its connection is ready or not
NextAwait ==
    \/ Construct
    \/ \E r \in inflight : Authorized(r)
    \/ \E r \in inflight : RespondCalendarList(r)
    \/ \E r \in inflight : RespondCalendarInsert(r)
    \/ \E r \in inflight : RejectCalendarCall(r)
    \/ \E p \in Procs : AwaitConnection(p, "logStart", <<>>)
    \/ \E p \in Procs : AwaitConnection(p, "logActivity", Message(nOps + 1))
    \/ \E p \in Procs : AwaitConnection(p, "logEnd", <<>>)
    \/ \E p \in Procs : Proceed(p)
    \/ \E p \in Procs : ConnectionRejected(p)
    \/ \E p \in Procs, gap \in Gaps :
        Awaited(calendarConnection) /\ nOps < MaxAwaitOps /\ CallLogStartAfter(p, gap)
    \/ \E p \in Procs, gap \in Gaps :
        /\ Awaited(calendarConnection)
        /\ nOps < MaxAwaitOps
        /\ CallLogActivityAfter(p, Message(nOps + 1), gap)
    \/ \E p \in Procs, gap \in Gaps :
        Awaited(calendarConnection) /\ nOps < MaxAwaitOps /\ CallLogEndAfter(p, gap)
    \/ \E r \in inflight : RespondInsert(r, FALSE)
    \/ \E r \in inflight : RespondList(r)
    \/ \E r \in inflight : RespondPatch(r)

SpecAwait == InitAwait /\ [][NextAwait]_vars

EventCalls == {"list", "insert", "patch"}

\* C31: a call of events.list, events.insert or events.patch is only in flight when
\* the connection has resolved, and it carries the calendar identifier of the
\* instance, which is set; once set the identifier is never assigned again.
C31_EventCallsAfterResolution ==
    [][/\ \A r \in inflight' :
            r.call \in EventCalls =>
                /\ calendarConnection' = "resolved"
                /\ calendarId' # 0
                /\ r.calendarId = calendarId'
       /\ calendarId # 0 => calendarId' = calendarId]_vars

\* two operations were called before the connection was ready; both have gone on
\* and their calls carry the identifier of the second listed calendar
C31_Witness ==
    /\ calendarConnection = "resolved"
    /\ calendarId = 2
    /\ \A p \in Procs :
        /\ op[p].time0 < InitNow + MsPerMinute
        /\ \E r \in inflight :
            r.proc = p /\ r.call \in EventCalls /\ r.calendarId = 2

\* what happens without a caller: the constructor runs, the authorization
\* completes, every remote call is answered and a function that can go on does
Answering ==
    \/ Construct
    \/ \E r \in inflight : Authorized(r)
    \/ \E r \in inflight : RespondCalendarList(r)
    \/ \E r \in inflight : RespondCalendarInsert(r)
    \/ \E r \in inflight : RejectCalendarCall(r)
    \/ \E p \in Procs : Proceed(p)
    \/ \E p \in Procs : ConnectionRejected(p)
    \/ \E r \in inflight : RespondInsert(r, FALSE)
    \/ \E r \in inflight : RespondList(r)
    \/ \E r \in inflight : RespondPatch(r)

FairAwait == SpecAwait /\ WF_vars(Answering)

\* C32: when the authorization completes and every remote call is answered, every
\* operation that was called settles, also the first one on an instance whose
\* calendar had to be created.
C32_EveryOperationSettles ==
    \A p \in Procs : (pc[p] # "idle") ~> (pc[p] = "idle")

\* both callers have reported on the open log and neither found it stale
BothReported ==
    \A p \in Procs :
        /\ pc[p] = "idle"
        /\ op[p].kind = "logActivity"
        /\ op[p].status = "resolved"
        /\ ~op[p].lapsed

\* C33: when two reports on the same open log, which has not lapsed, have both
\* resolved, the description of the log holds the line of each of them, however
\* their list and patch steps were interleaved.
C33_NoReportLost ==
    BothReported => \A p \in Procs : HasLine(store[op[p].target], op[p].msg)

(***************************************************************************)
(* A report and an end that do not wait for each other                     *)
(***************************************************************************)
\* the first caller reports and the second one ends the log, whatever the other is
\* doing; when both have settled the first caller reports once more
NextEndRace ==
    \/ op[1].kind = "none" /\ CallLogActivityAfter(1, Message(nOps + 1), QuickGap)
    \/ op[2].kind = "none" /\ CallLogEndAfter(2, QuickGap)
    \/ /\ Idle
       /\ nOps = Cardinality(Procs)
       /\ CallLogActivityAfter(1, Message(nOps + 1), QuickGap)
    \/ \E r \in inflight : RespondInsert(r, FALSE)
    \/ \E r \in inflight : RespondList(r)
    \/ \E r \in inflight : RespondPatch(r)

SpecEndRace == InitTwo /\ [][NextEndRace]_vars

\* the report and the end have both resolved on the same event, which neither
\* found stale
ReportedAndEnded ==
    /\ Idle
    /\ nOps = Cardinality(Procs)
    /\ op[1].kind = "logActivity" /\ op[1].status = "resolved" /\ ~op[1].lapsed
    /\ op[2].kind = "logEnd" /\ op[2].status = "resolved" /\ ~op[2].lapsed
    /\ op[1].target = op[2].target

\* C34: when a report and an end of the same instance have both resolved on the
\* same log, the log is marked completed, however their list and patch steps
\* were interleaved.
C34_ClosedStaysClosed ==
    ReportedAndEnded => store[op[2].target].completed = "true"

\* the places of the open events of a calendar
OpenPlaces(s) == {i \in 1..Len(s) : IsOpen(s[i])}

\* the sequential caller's logEnd resolves in this step without having found the
\* log stale
EndSucceeds ==
    /\ op[1].kind = "logEnd"
    /\ op[1].status = "pending"
    /\ op'[1].status = "resolved"
    /\ ~op'[1].lapsed

\* C35: a step changes no event but the open event with the latest start, and
\* leaves every other open event as it is; a logEnd that succeeds where k events
\* were open leaves k - 1 of them open, and an operation only fails for want of an
\* open event when its listing held none.
C35_OnlyLatestOpenChanges ==
    [][/\ \A i \in 1..Len(store) :
            store'[i] # store[i] =>
                /\ i \in OpenPlaces(store)
                /\ \A j \in OpenPlaces(store) \ {i} :
                        /\ store[j].start <= store[i].start
                        /\ store'[j] = store[j]
       /\ EndSucceeds =>
            /\ OpenPlaces(store') \subseteq OpenPlaces(store)
            /\ Cardinality(OpenPlaces(store')) = Cardinality(OpenPlaces(store)) - 1
       /\ (op[1].status = "pending" /\ op'[1].status = "rejected") =>
            op'[1].windowOpen = 0]_vars

\* two logs were open; logEnd has closed the later one and the report that
\* followed has found the earlier one instead of failing
C35_Witness ==
    /\ Idle
    /\ Len(hist) = 4
    /\ hist[3].kind = "logEnd"
    /\ hist[3].status = "resolved"
    /\ hist[3].openBefore = 2
    /\ ~hist[3].lapsed
    /\ Last.kind = "logActivity"
    /\ Last.status = "resolved"
    /\ Last.stale = 1
    /\ store[2].completed = "true"
    /\ ~HasLine(store[2], InactivityText)

\* the caller's listing is answered in this step
ListAnswered(p) == pc[p] = "awaitList" /\ pc'[p] # "awaitList"

\* the listing has given the caller an event to patch
Resolved(p) == pc'[p] \in {"awaitPatch", "awaitClose"}

InitAuthorize ==
    /\ now = InitNow
    /\ store = <<>>
    /\ initStore = store
    /\ options \in {ValidOptions(c, m, NoOverrides) : c \in CalendarSummaries, m \in MinutesOptions}
    /\ calendarList \in {Calendars(titles) : titles \in CalendarTitles}
    /\ files \in SUBSET {"credentials.json", "token.json"}
    /\ auth = "none"
    /\ credentialsPath = ""
    /\ tokenPath = ""
    /\ calendarSummary = ""
    /\ minutesUntilInactivity = DefaultMinutesUntilInactivity
    /\ strings = getDefaultStrings
    /\ calendarConnection = "no instance"
    /\ calendarId = 0
    /\ thrown = ""
    /\ pc = [p \in Procs |-> "idle"]
    /\ frame = [p \in Procs |-> NoFrame]
    /\ inflight = {}
    /\ console = {}
    /\ op = [p \in Procs |-> NoOp]
    /\ hist = <<>>
    /\ lastMutation = "none"
    /\ nOps = 0
    /\ nSlow = 0

\* authorize: fs.readFile(credentialsPath) fails; authorize throws and the
\* connection rejects
AuthorizeNoCredentials(r) ==
    /\ r \in inflight
    /\ r.call = "authorize"
    /\ credentialsPath \notin files
    /\ now' = now + FastLatency
    /\ inflight' = inflight \ {r}
    /\ console' = console \cup {"Error loading client secret file", ConnectionError}
    /\ calendarConnection' = "rejected"
    /\ UNCHANGED <<store, config, pc, frame, op, hist, initStore, lastMutation, nOps,
                   nSlow, options, credentialsPath, tokenPath, calendarId, calendarList,
                   thrown, files, auth>>

\* authorize: fs.readFile(tokenPath) fails; getAccessToken prints the URL and asks
\* for the code, then calls oAuth2Client.getToken
AuthorizeFirstTime(r) ==
    /\ r \in inflight
    /\ r.call = "authorize"
    /\ credentialsPath \in files
    /\ tokenPath \notin files
    /\ now' = now + FastLatency
    /\ inflight' = (inflight \ {r}) \cup
                     {Request(0, "getToken", Undefined, Undefined, 0, NoResource)}
    /\ console' = console \cup {"No token.json found", "Authorize this app"}
    /\ UNCHANGED <<store, config, pc, frame, op, hist, initStore, lastMutation, nOps,
                   nSlow, connection>>

\* the callback of getToken with a token: setCredentials, the token is written to
\* tokenPath and getAccessToken resolves with the client; authorize, which does not
\* return what it awaited, resolves with undefined, and initCalendarConnection
\* builds the connection on that and goes on to getOrCreateCalendar
RespondGetToken(r) ==
    /\ r \in inflight
    /\ r.call = "getToken"
    /\ now' = now + FastLatency
    /\ files' = files \cup {tokenPath}
    /\ console' = console \cup {"Token stored"}
    /\ auth' = "undefined"
    /\ inflight' = (inflight \ {r}) \cup {ConnectRequest("calendarList.list")}
    /\ UNCHANGED <<store, config, pc, frame, op, hist, initStore, lastMutation, nOps,
                   nSlow, options, credentialsPath, tokenPath, calendarConnection,
                   calendarId, calendarList, thrown>>

\* the callback of getToken with an error: getAccessToken rejects, and so do
\* authorize and the connection
FailGetToken(r) ==
    /\ r \in inflight
    /\ r.call = "getToken"
    /\ now' = now + FastLatency
    /\ inflight' = inflight \ {r}
    /\ console' = console \cup {"Error retrieving access token", ConnectionError}
    /\ calendarConnection' = "rejected"
    /\ UNCHANGED <<store, config, pc, frame, op, hist, initStore, lastMutation, nOps,
                   nSlow, options, credentialsPath, tokenPath, calendarId, calendarList,
                   thrown, files, auth>>

\* the constructor and the connection it sets up; the calendar calls of a
\* connection without a client are answered with an error
NextAuthorize ==
    \/ Construct
    \/ \E r \in inflight : AuthorizeNoCredentials(r)
    \/ \E r \in inflight : Authorized(r)
    \/ \E r \in inflight : AuthorizeFirstTime(r)
    \/ \E r \in inflight : RespondGetToken(r)
    \/ \E r \in inflight : FailGetToken(r)
    \/ \E r \in inflight : auth = "oAuth2Client" /\ RespondCalendarList(r)
    \/ \E r \in inflight : auth = "oAuth2Client" /\ RespondCalendarInsert(r)
    \/ \E r \in inflight : RejectCalendarCall(r)

SpecAuthorize == InitAuthorize /\ [][NextAuthorize]_vars

\* C37: when authorize has resolved, with the stored token or after the first-time
\* flow, it has resolved with the client that holds the credentials, the token is
\* at tokenPath, and the connection is built on that client.
C37_AuthorizeResolvesWithClient ==
    auth # "none" =>
        /\ auth = "oAuth2Client"
        /\ tokenPath \in files

====
